---- MODULE Spec2Model ----
(***************************************************************************)
(* Course-Recommendation-System: the requirement tree store                *)
(* (RequirementsAnalysis/RequirementsTreeSeed.py) and the requirement      *)
(* eligibility evaluator (RequirementsAnalysis/RequirementsTreeTraveller.py)*)
(* as state machines over the relational store.                            *)
(*                                                                         *)
(* Python values.  A str is the record [py |-> "str", s |-> <<chars>>], so *)
(* that lower(), strip(), sorted() and LIKE are computed on characters;    *)
(* None is [py |-> "NoneType"]; a list is [py |-> "list", items |-> <<..>>];*)
(* a dict is a record without a py field (its keys are its fields), or,    *)
(* where the order of its items matters, the list of its (key, value)      *)
(* pairs.  The "type" and "operator" fields of a requirement document,     *)
(* which the code only compares with literals, are TLA+ strings.           *)
(***************************************************************************)
EXTENDS Integers, Sequences, FiniteSets, TLC

VARIABLES
    db,     \* the SQLite database: courses, individual_reqs, req_groups, sqlite_sequence
    ret     \* the last call made on the program and what it returned

vars == <<db, ret>>

----------------------------------------------------------------------------
(* Bounds of the model *)

\* number of requirement trees (root rows) the store may come to hold
MaxTrees == 3

\* the same, where the loaded store is then asked for eligible courses
MaxEvalTrees == 2

\* number of .json files in a subject directory
MaxFiles == 2

----------------------------------------------------------------------------
(* Python str, None, isinstance *)

Str(chars) == [py |-> "str", s |-> chars]
None == [py |-> "NoneType"]
PyInt(n) == [py |-> "int", n |-> n]
List(items) == [py |-> "list", items |-> items]
\* a dict given by its items in order
Dict(items) == [py |-> "dict", items |-> items]

IsStr(v) == "py" \in DOMAIN v /\ v.py = "str"
IsDict(v) == "py" \notin DOMAIN v
IsList(v) == "py" \in DOMAIN v /\ v.py = "list"

UpperCase == <<"A","B","C","D","E","F","G","H","I","J","K","L","M",
               "N","O","P","Q","R","S","T","U","V","W","X","Y","Z">>
LowerCase == <<"a","b","c","d","e","f","g","h","i","j","k","l","m",
               "n","o","p","q","r","s","t","u","v","w","x","y","z">>
Digits == <<"0","1","2","3","4","5","6","7","8","9">>
Whitespace == {" ", "\t", "\n"}

\* code point order of the characters in use: whitespace < digits < A-Z < a-z
CodePoints == <<"\t", "\n", " ">> \o <<"/">> \o Digits \o UpperCase \o LowerCase

Range(f) == {f[i] : i \in DOMAIN f}

OrdTable ==
    [c \in Range(CodePoints) |-> CHOOSE i \in DOMAIN CodePoints : CodePoints[i] = c]
Ord(c) == OrdTable[c]

LowerTable ==
    [c \in Range(CodePoints) |->
        IF \E i \in DOMAIN UpperCase : UpperCase[i] = c
        THEN LowerCase[CHOOSE i \in DOMAIN UpperCase : UpperCase[i] = c]
        ELSE c]
LowerChar(c) == LowerTable[c]

\* str.lower()
lower(v) == Str([i \in DOMAIN v.s |-> LowerChar(v.s[i])])

\* str.strip(): drop leading and trailing whitespace
RECURSIVE LStrip(_)
LStrip(cs) ==
    IF cs # <<>> /\ Head(cs) \in Whitespace THEN LStrip(Tail(cs)) ELSE cs
RECURSIVE RStrip(_)
RStrip(cs) ==
    IF cs # <<>> /\ cs[Len(cs)] \in Whitespace
    THEN RStrip(SubSeq(cs, 1, Len(cs) - 1)) ELSE cs
strip(v) == Str(RStrip(LStrip(v.s)))

\* truth value of a str: non-empty
Truthy(v) == v.s # <<>>

\* a < b for two strs, by code point, as sorted() and ORDER BY compare them
RECURSIVE SeqLess(_, _)
SeqLess(a, b) ==
    IF b = <<>> THEN FALSE
    ELSE IF a = <<>> THEN TRUE
    ELSE IF Ord(Head(a)) # Ord(Head(b)) THEN Ord(Head(a)) < Ord(Head(b))
    ELSE SeqLess(Tail(a), Tail(b))
StrLess(a, b) == SeqLess(a.s, b.s)

\* needle occurs in hay (SQL LIKE '%needle%', which ignores ASCII case)
Like(hay, needle) ==
    LET h == lower(hay).s
        n == lower(needle).s
    IN \E i \in 0..(Len(h) - Len(n)) : SubSeq(h, i + 1, i + Len(n)) = n

\* sorted(list of str): ascending, duplicates kept
RECURSIVE SortedSeq(_)
SortedSeq(xs) ==
    IF xs = <<>> THEN <<>>
    ELSE LET m == CHOOSE i \in DOMAIN xs :
                    \A j \in DOMAIN xs : ~StrLess(xs[j], xs[i])
         IN <<xs[m]>> \o SortedSeq([k \in 1..(Len(xs) - 1) |->
                                        IF k < m THEN xs[k] ELSE xs[k + 1]])

----------------------------------------------------------------------------
(* String literals in use *)

CivilEngineering == Str(<<"C","i","v","i","l"," ","E","n","g","i","n","e","e","r","i","n","g">>)
MechanicalEngineering == Str(<<"M","e","c","h","a","n","i","c","a","l"," ","E","n","g","i","n","e","e","r","i","n","g">>)
SoftwareEngineering == Str(<<"S","o","f","t","w","a","r","e"," ","E","n","g","i","n","e","e","r","i","n","g">>)
Pharmacy == Str(<<"P","h","a","r","m","a","c","y">>)
Music == Str(<<"M","u","s","i","c">>)
Engineering == Str(<<"E","n","g","i","n","e","e","r","i","n","g">>)
EngineeringMathematics == Str(<<"E","n","g","i","n","e","e","r","i","n","g","/","M","a","t","h","e","m","a","t","i","c","s">>)
Science == Str(<<"S","c","i","e","n","c","e">>)

L1A == Str(<<"1","A">>)
L1B == Str(<<"1","B">>)
L2A == Str(<<"2","A">>)
L2B == Str(<<"2","B">>)
L3A == Str(<<"3","A">>)
L3B == Str(<<"3","B">>)
L4A == Str(<<"4","A">>)
L4B == Str(<<"4","B">>)

----------------------------------------------------------------------------
(* The relational store *)

\* SQL NULL in an INTEGER column (row ids start at 1)
NULL == 0

\* programs(name, faculty), as seeded by ProgramsSeed
programs ==
    { [name |-> CivilEngineering, faculty |-> Engineering],
      [name |-> MechanicalEngineering, faculty |-> Engineering],
      [name |-> SoftwareEngineering, faculty |-> EngineeringMathematics],
      [name |-> Pharmacy, faculty |-> Science] }

\* the set as a list in ascending order (ORDER BY on a str column)
RECURSIVE OrderBy(_)
OrderBy(S) ==
    IF S = {} THEN <<>>
    ELSE LET m == CHOOSE x \in S : \A y \in S : ~StrLess(y, x)
         IN <<m>> \o OrderBy(S \ {m})

\* SELECT DISTINCT name FROM programs WHERE faculty LIKE '%Engineering%' ORDER BY name
valid_programs ==
    OrderBy({p.name : p \in {q \in programs : Like(q.faculty, Engineering)}})

valid_levels == <<L1A, L1B, L2A, L2B, L3A, L3B, L4A, L4B>>

\* courses(code, subject): the rows the course fetcher left in the table
CourseRow(subject, number) ==
    [code |-> Str(subject \o <<" ">> \o number), subject |-> Str(subject)]

AE100 == CourseRow(<<"A","E">>, <<"1","0","0">>)
ECE105 == CourseRow(<<"E","C","E">>, <<"1","0","5">>)
ME101 == CourseRow(<<"M","E">>, <<"1","0","1">>)
CS135 == CourseRow(<<"C","S">>, <<"1","3","5">>)

courses_table == {AE100, ECE105, ME101, CS135}

\* the tables created by _init_database, empty
EmptyDB ==
    [ courses |-> courses_table,
      individual_reqs |-> {},
      req_groups |-> {},
      sqlite_sequence |-> [individual_reqs |-> 0, req_groups |-> 0] ]

\* INTEGER PRIMARY KEY AUTOINCREMENT: one more than the largest id ever used
MaxId(rows) ==
    IF rows = {} THEN 0 ELSE CHOOSE m \in {r.id : r \in rows} : \A r \in rows : r.id <= m
NextRowId(d, table) ==
    (IF MaxId(d[table]) > d.sqlite_sequence[table]
     THEN MaxId(d[table]) ELSE d.sqlite_sequence[table]) + 1

----------------------------------------------------------------------------
(* Requirement documents (the JSON the extraction writes) *)

\* a leaf condition {"type":..., "operator":..., "value":...}
Leaf(t, o, v) == [type |-> t, operator |-> o, value |-> v]
\* a group {"operator":..., "conditions":[...]}
Group(o, cs) == [operator |-> o, conditions |-> List(cs)]

\* dict.get(key, default)
DictGet(d, key, default) == IF key \in DOMAIN d THEN d[key] ELSE default

----------------------------------------------------------------------------
(* Database: validation of requirement documents *)

\* a MINOR condition also allowed the operator "!="
valid_operators_MinorNotEqual(type) ==
    IF type = "PROGRAM" THEN {"=", "!="}
    ELSE IF type = "LEVEL" THEN {"=", ">="}
    ELSE IF type = "MINOR" THEN {"=", "!="}
    ELSE {}

\* _validate_condition: the operators valid for a condition type
valid_operators(type) ==
    IF type = "PROGRAM" THEN {"=", "!="}
    ELSE IF type = "LEVEL" THEN {"=", ">="}
    ELSE IF type = "MINOR" THEN {"="}
    ELSE {}

\* _validate_condition
RECURSIVE _validate_condition(_)
_validate_condition(condition) ==
    IF ~IsDict(condition) THEN FALSE
    ELSE IF "operator" \in DOMAIN condition /\ "conditions" \in DOMAIN condition
    THEN \* a nested group
         IF condition.operator \notin {"AND", "OR"} THEN FALSE
         ELSE IF ~IsList(condition.conditions) THEN FALSE
         ELSE \A i \in DOMAIN condition.conditions.items :
                 _validate_condition(condition.conditions.items[i])
    ELSE \* a leaf condition
         IF ~({"type", "operator", "value"} \subseteq DOMAIN condition) THEN FALSE
         ELSE IF condition.type \notin {"PROGRAM", "LEVEL", "MINOR"} THEN FALSE
         ELSE IF condition.operator \notin valid_operators(condition.type) THEN FALSE
         ELSE IF ~IsStr(condition.value) THEN FALSE
         ELSE IF condition.type = "LEVEL"
                 /\ condition.value \notin Range(valid_levels) THEN FALSE
         ELSE IF condition.type = "PROGRAM"
                 /\ condition.value \notin Range(valid_programs) THEN FALSE
         ELSE TRUE

\* _validate_requirements_structure: the isinstance test comes first, so the
\* "requirements is None" branch after it is never taken
_validate_requirements_structure(requirements) ==
    IF ~IsDict(requirements) THEN FALSE
    ELSE IF requirements = None THEN TRUE
    ELSE IF "operator" \notin DOMAIN requirements THEN FALSE
    ELSE IF requirements.operator \notin {"AND", "OR"} THEN FALSE
    ELSE IF "conditions" \notin DOMAIN requirements THEN FALSE
    ELSE IF ~IsList(requirements.conditions) THEN FALSE
    ELSE \A i \in DOMAIN requirements.conditions.items :
            _validate_condition(requirements.conditions.items[i])

\* dict.update on a dict kept as its list of (key, value) items: a key already
\* present keeps its place and takes the new value, a new key goes last
RECURSIVE DictUpdate(_, _)
DictSet(items, key, value) ==
    IF \E n \in DOMAIN items : items[n][1] = key
    THEN [n \in DOMAIN items |-> IF items[n][1] = key THEN <<key, value>> ELSE items[n]]
    ELSE Append(items, <<key, value>>)
DictUpdate(items, other) ==
    IF other = <<>> THEN items
    ELSE DictUpdate(DictSet(items, Head(other)[1], Head(other)[2]), Tail(other))

\* the courses of one file's parsed_requirements that validate, in item order
valid_courses(parsed_reqs) ==
    SelectSeq(parsed_reqs, LAMBDA item : _validate_requirements_structure(item[2]))

\* load_subject_requirements over the .json files of a subject directory, in
\* listing order.  A file is its decoded content (a dict); parsed_requirements,
\* when a dict, is its list of (course, document) items.  A file whose
\* parsed_requirements is not a dict raises inside the try and is skipped.
RECURSIVE load_subject_requirements(_)
load_subject_requirements(json_files) ==
    IF json_files = <<>> THEN <<>>
    ELSE LET n == Len(json_files)
             data == json_files[n]
             requirements == load_subject_requirements(SubSeq(json_files, 1, n - 1))
         IN IF "parsed_requirements" \in DOMAIN data
            THEN (IF data.parsed_requirements.py # "dict"
                  THEN requirements       \* .items() raises: except, skipped
                  ELSE DictUpdate(requirements,
                                  valid_courses(data.parsed_requirements.items)))
            ELSE requirements

----------------------------------------------------------------------------
(* _BulkRequirementProcessor *)

\* offset of the temporary group ids
TempIdBase == 1000000

\* a descriptor without a leaf key
NoKey == <<>>

\* the cache filled with the first id of the table for every key
LoadCache_FirstId(d) ==
    [k \in {<<r.type, r.operator, r.value>> : r \in d.individual_reqs} |->
        (CHOOSE r \in d.individual_reqs : \A q \in d.individual_reqs : r.id <= q.id).id]

\* _load_individual_reqs_cache: (type, operator, value) -> id of the rows in the table
LoadCache(d) ==
    [k \in {<<r.type, r.operator, r.value>> : r \in d.individual_reqs} |->
        (CHOOSE r \in d.individual_reqs : <<r.type, r.operator, r.value>> = k).id]

\* the leaf row appended only with a new key
LeafDescriptor_OnlyNewKeys(course, group_id, key, i, cache) ==
    IF key \notin DOMAIN cache
    THEN <<[course |-> course, parent_id |-> group_id, type |-> "CONDITION",
            key |-> key, position |-> i, temp_id |-> NULL]>>
    ELSE <<>>

\* the row descriptor of a leaf: in the source the leaf row is appended whether or
\* not its key is already cached
LeafDescriptor(course, group_id, key, i, cache) ==
    <<[course |-> course, parent_id |-> group_id, type |-> "CONDITION",
       key |-> key, position |-> i, temp_id |-> NULL]>>

\* _collect_course_operations.collect_group: pre-order walk appending to the two
\* lists acc.individual_reqs and acc.req_groups
RECURSIVE CollectGroup(_, _, _, _, _, _)
RECURSIVE CollectConditions(_, _, _, _, _, _)
CollectGroup(course, group, parent_id, position, cache, acc) ==
    LET group_id == Len(acc.req_groups) + TempIdBase
        group_type == DictGet(group, "operator", None)
        row == [course |-> course, parent_id |-> parent_id, type |-> group_type,
                key |-> NoKey, position |-> position, temp_id |-> group_id]
        acc1 == [acc EXCEPT !.req_groups = Append(@, row)]
    IN CollectConditions(course, DictGet(group, "conditions", List(<<>>)).items,
                         group_id, 1, cache, acc1)
CollectConditions(course, conditions, group_id, n, cache, acc) ==
    IF n > Len(conditions) THEN acc
    ELSE LET condition == conditions[n]
             i == n - 1      \* enumerate() counts from 0
         IN IF {"type", "operator", "value"} \subseteq DOMAIN condition
            THEN LET key == <<condition.type, condition.operator, condition.value>>
                     acc1 == [acc EXCEPT
                                !.individual_reqs =
                                    IF key \notin DOMAIN cache THEN Append(@, key) ELSE @,
                                !.req_groups =
                                    @ \o LeafDescriptor(course, group_id, key, i, cache)]
                 IN CollectConditions(course, conditions, group_id, n + 1, cache, acc1)
            ELSE CollectConditions(course, conditions, group_id, n + 1, cache,
                                   CollectGroup(course, condition, group_id, i, cache, acc))

_collect_course_operations(course, requirements, cache) ==
    CollectGroup(course, requirements, NULL, 0, cache,
                 [individual_reqs |-> <<>>, req_groups |-> <<>>])

\* process_all_courses, the loop over ai_output.items(): null documents are
\* skipped, the lists of the other courses are concatenated in dict order
RECURSIVE CollectAll(_, _, _)
CollectAll(ai_output, n, cache) ==
    IF n = 0 THEN [individual_reqs |-> <<>>, req_groups |-> <<>>]
    ELSE LET before == CollectAll(ai_output, n - 1, cache)
             course == ai_output[n][1]
             requirements == ai_output[n][2]
         IN IF requirements = None THEN before
            ELSE LET c == _collect_course_operations(course, requirements, cache)
                 IN [individual_reqs |-> before.individual_reqs \o c.individual_reqs,
                     req_groups |-> before.req_groups \o c.req_groups]

\* list(set(individual_reqs)): the distinct keys, in any order
Orders(S) ==
    {f \in [1..Cardinality(S) -> S] : \A i, j \in DOMAIN f : f[i] = f[j] => i = j}

\* groups.sort(key=lambda x: (x[1] is not None, x[4])): roots first, then by
\* temporary id; the sort is stable, so equal keys keep their list order
SortKeyLess(x, y) ==
    LET bx == IF x.parent_id # NULL THEN 1 ELSE 0
        by == IF y.parent_id # NULL THEN 1 ELSE 0
    IN bx < by \/ (bx = by /\ x.temp_id < y.temp_id)
RECURSIVE SortGroups(_)
SortGroups(xs) ==
    IF xs = <<>> THEN <<>>
    ELSE LET minimal == {i \in DOMAIN xs : \A j \in DOMAIN xs : ~SortKeyLess(xs[j], xs[i])}
             m == CHOOSE i \in minimal : \A j \in minimal : i <= j
         IN <<xs[m]>> \o SortGroups([k \in 1..(Len(xs) - 1) |->
                                        IF k < m THEN xs[k] ELSE xs[k + 1]])

\* the leaf rows inserted before the group rows
Statements_LeavesFirst(collected, order) ==
    LET groups == SelectSeq(collected.req_groups, LAMBDA g : g.temp_id # NULL)
        leaves == SelectSeq(collected.req_groups,
                            LAMBDA g : g.temp_id = NULL /\ g.key # NoKey)
        sorted == SortGroups(groups)
    IN [i \in DOMAIN order |-> [kind |-> "insert_individual", key |-> order[i]]]
       \o <<[kind |-> "resolve_ids", keys |-> Range(order)]>>
       \o [i \in DOMAIN leaves |-> [kind |-> "insert_leaf", row |-> leaves[i]]]
       \o [i \in DOMAIN sorted |-> [kind |-> "insert_group", row |-> sorted[i]]]

\* the statements of one bulk load, in the order process_all_courses issues them:
\* _bulk_insert_individual_reqs (the executemany, then the id lookups), then
\* _bulk_insert_req_groups (group rows sorted, then leaf rows)
Statements(collected, order) ==
    LET groups == SelectSeq(collected.req_groups, LAMBDA g : g.temp_id # NULL)
        leaves == SelectSeq(collected.req_groups,
                            LAMBDA g : g.temp_id = NULL /\ g.key # NoKey)
        sorted == SortGroups(groups)
    IN [i \in DOMAIN order |-> [kind |-> "insert_individual", key |-> order[i]]]
       \o <<[kind |-> "resolve_ids", keys |-> Range(order)]>>
       \o [i \in DOMAIN sorted |-> [kind |-> "insert_group", row |-> sorted[i]]]
       \o [i \in DOMAIN leaves |-> [kind |-> "insert_leaf", row |-> leaves[i]]]

\* temp_to_real_id.get(parent_temp_id) if parent_temp_id else None
RealParent(temp_to_real_id, parent_temp_id) ==
    IF parent_temp_id # NULL
    THEN (IF parent_temp_id \in DOMAIN temp_to_real_id
          THEN temp_to_real_id[parent_temp_id] ELSE NULL)
    ELSE NULL

\* INSERT INTO req_groups (course, parent_id, type, individual_id, position)
InsertReqGroup(d, course, parent_id, type, individual_id, position) ==
    LET id == NextRowId(d, "req_groups")
    IN [d EXCEPT
          !.req_groups = @ \cup {[id |-> id, course |-> course, parent_id |-> parent_id,
                                  type |-> type, individual_id |-> individual_id,
                                  position |-> position]},
          !.sqlite_sequence.req_groups = id]

\* INSERT OR IGNORE INTO individual_reqs (type, operator, value), under
\* UNIQUE(type, operator, value)
InsertOrIgnoreIndividualReq(d, key) ==
    IF \E r \in d.individual_reqs : <<r.type, r.operator, r.value>> = key
    THEN d
    ELSE LET id == NextRowId(d, "individual_reqs")
         IN [d EXCEPT
               !.individual_reqs = @ \cup {[id |-> id, type |-> key[1],
                                            operator |-> key[2], value |-> key[3]]},
               !.sqlite_sequence.individual_reqs = id]

\* one statement applied to the open transaction tx: the working database, the
\* processor's individual_req_cache and the temp_to_real_id map
Execute(tx, st) ==
    CASE st.kind = "insert_individual" ->
            [tx EXCEPT !.db = InsertOrIgnoreIndividualReq(@, st.key)]
      [] st.kind = "resolve_ids" ->
            LET table == LoadCache(tx.db)
                found == {k \in st.keys : k \notin DOMAIN tx.cache /\ k \in DOMAIN table}
            IN [tx EXCEPT !.cache = [k \in DOMAIN tx.cache \cup found |->
                                        IF k \in DOMAIN tx.cache THEN tx.cache[k]
                                        ELSE table[k]]]
      [] st.kind = "insert_group" ->
            LET real_parent_id == RealParent(tx.temp_to_real_id, st.row.parent_id)
                after == InsertReqGroup(tx.db, st.row.course, real_parent_id,
                                        st.row.type, NULL, st.row.position)
                real_id == after.sqlite_sequence.req_groups     \* cursor.lastrowid
            IN [tx EXCEPT
                  !.db = after,
                  !.temp_to_real_id =
                      [t \in DOMAIN @ \cup {st.row.temp_id} |->
                          IF t = st.row.temp_id THEN real_id ELSE @[t]]]
      [] st.kind = "insert_leaf" ->
            IF st.row.key \in DOMAIN tx.cache      \* if individual_id:
            THEN [tx EXCEPT !.db =
                    InsertReqGroup(@, st.row.course,
                                   RealParent(tx.temp_to_real_id, st.row.parent_id),
                                   "CONDITION", tx.cache[st.row.key], st.row.position)]
            ELSE tx

\* the first n statements of sts applied in order
RECURSIVE ExecuteAll(_, _, _)
ExecuteAll(tx, sts, n) ==
    IF n = 0 THEN tx ELSE Execute(ExecuteAll(tx, sts, n - 1), sts[n])

\* the rollback left out
Rollback_Missing(snapshot, working) == working

\* conn.rollback(): the database as it was at BEGIN
Rollback(snapshot, working) == snapshot

\* process_all_courses on database d.  order is the iteration order of the set of
\* new keys; fault = 0 when no statement raises, fault = k when statement k raises
\* (the statements before it have run), fault = number of statements + 1 when the
\* commit raises.  The result is the database afterwards, whether the call raised
\* the RuntimeError, and the statement the error names.
process_all_courses(d, ai_output, order, fault) ==
    LET cache == LoadCache(d)
        collected == CollectAll(ai_output, Len(ai_output), cache)
        sts == Statements(collected, order)
        begin == [db |-> d, cache |-> cache, temp_to_real_id |-> <<>>]
        done == IF fault = 0 THEN Len(sts) ELSE fault - 1
        tx == ExecuteAll(begin, sts, done)
    IN IF fault = 0
       THEN [db |-> tx.db, raised |-> FALSE, cause |-> "none"]
       ELSE [db |-> Rollback(d, tx.db), raised |-> TRUE,
             cause |-> IF fault > Len(sts) THEN "commit" ELSE sts[fault].kind]

\* the keys process_all_courses hands to _bulk_insert_individual_reqs, and the
\* number of statements of the load
NewKeys(d, ai_output) ==
    Range(CollectAll(ai_output, Len(ai_output), LoadCache(d)).individual_reqs)
NumStatements(d, ai_output) ==
    LET collected == CollectAll(ai_output, Len(ai_output), LoadCache(d))
    IN Cardinality(Range(collected.individual_reqs)) + 1 + Len(collected.req_groups)

----------------------------------------------------------------------------
(* Database.store_course_requirements *)

\* the documents loaded in the model
DocAndLevelProgram ==
    Group("AND", <<Leaf("LEVEL", ">=", L2B), Leaf("PROGRAM", "=", CivilEngineering)>>)
DocOrProgramMinor ==
    Group("OR", <<Leaf("PROGRAM", "=", MechanicalEngineering), Leaf("MINOR", "=", Music)>>)
DocNested ==
    Group("OR", <<Group("AND", <<Leaf("LEVEL", ">=", L2B),
                                 Leaf("PROGRAM", "=", CivilEngineering)>>),
                  Leaf("PROGRAM", "!=", CivilEngineering)>>)
DocEmpty == Group("AND", <<>>)

\* the ai_output dicts passed to store_course_requirements: lists of
\* (course, requirements) in dict order
Batches ==
    { <<>>,
      <<<<ECE105.code, DocAndLevelProgram>>>>,
      <<<<ECE105.code, DocOrProgramMinor>>>>,
      <<<<AE100.code, DocNested>>>>,
      <<<<ME101.code, None>>>>,
      <<<<CS135.code, DocEmpty>>>>,
      <<<<AE100.code, DocAndLevelProgram>>, <<ME101.code, DocOrProgramMinor>>>>,
      <<<<ECE105.code, DocNested>>, <<ME101.code, None>>, <<AE100.code, DocEmpty>>>> }

\* the stored trees: the rows with parent_id IS NULL
Roots(d) == {g \in d.req_groups : g.parent_id = NULL}
NumDocuments(ai_output) ==
    Cardinality({n \in DOMAIN ai_output : ai_output[n][2] # None})

StoreCourseRequirements(ai_output, order, fault) ==
    /\ Cardinality(Roots(db)) + NumDocuments(ai_output) <= MaxTrees
    /\ \/ /\ ai_output = <<>>                \* if not ai_output: return
          /\ ret' = [op |-> "store_course_requirements", ai_output |-> ai_output,
                     raised |-> FALSE, cause |-> "none"]
          /\ UNCHANGED db
       \/ /\ ai_output # <<>>
          /\ LET r == process_all_courses(db, ai_output, order, fault)
             IN /\ db' = r.db
                /\ ret' = [op |-> "store_course_requirements", ai_output |-> ai_output,
                           raised |-> r.raised, cause |-> r.cause]

Store ==
    \E ai_output \in Batches :
        \E order \in Orders(NewKeys(db, ai_output)) :
            \E fault \in 0..(NumStatements(db, ai_output) + 1) :
                StoreCourseRequirements(ai_output, order, fault)

----------------------------------------------------------------------------
(* RequirementsTreeTraveller *)

level_to_term ==
    (L1A :> 1) @@ (L1B :> 2) @@ (L2A :> 3) @@ (L2B :> 4) @@
    (L3A :> 5) @@ (L3B :> 6) @@ (L4A :> 7) @@ (L4B :> 8)

\* the comparison made strict
_level_greater_equal_Strict(current_level, required_level) ==
    LET current_term == IF current_level \in DOMAIN level_to_term
                        THEN level_to_term[current_level] ELSE 0
        required_term == IF required_level \in DOMAIN level_to_term
                         THEN level_to_term[required_level] ELSE 0
    IN current_term > required_term

\* _level_greater_equal: level_to_term.get(level, 0) on both sides
_level_greater_equal(current_level, required_level) ==
    LET current_term == IF current_level \in DOMAIN level_to_term
                        THEN level_to_term[current_level] ELSE 0
        required_term == IF required_level \in DOMAIN level_to_term
                         THEN level_to_term[required_level] ELSE 0
    IN current_term >= required_term

\* the minor left unchecked
_validate_inputs_MinorUnchecked(program, term, minor) ==
    IF ~IsStr(program)
       \/ ~\E i \in DOMAIN valid_programs : lower(program) = lower(valid_programs[i])
    THEN FALSE
    ELSE IF ~IsStr(term) \/ term \notin Range(valid_levels)
    THEN FALSE
    ELSE TRUE

\* _validate_inputs
_validate_inputs(program, term, minor) ==
    IF ~IsStr(program)
       \/ ~\E i \in DOMAIN valid_programs : lower(program) = lower(valid_programs[i])
    THEN FALSE
    ELSE IF ~IsStr(term) \/ term \notin Range(valid_levels)
    THEN FALSE
    ELSE IF minor # None /\ (~IsStr(minor) \/ ~Truthy(strip(minor)))
    THEN FALSE
    ELSE TRUE

\* the subjects of the WHERE SUBJECT IN (...) list
AllowedSubjects ==
    { Str(<<"A","E">>), Str(<<"A","R","C","H">>), Str(<<"B","M","E">>),
      Str(<<"C","H","E">>), Str(<<"E","C","E">>), Str(<<"E","N","V","E">>),
      Str(<<"G","E","N","E">>), Str(<<"G","E","O","E">>), Str(<<"M","E">>),
      Str(<<"M","S","E">>), Str(<<"M","T","E">>), Str(<<"N","E">>),
      Str(<<"S","E">>), Str(<<"S","Y","D","E">>) }

\* _get_courses_with_requirements: SELECT code FROM courses WHERE SUBJECT IN (...)
\* ORDER BY code
_get_courses_with_requirements(d) ==
    OrderBy({c.code : c \in {x \in d.courses : x.subject \in AllowedSubjects}})

\* the rows a SELECT ... ORDER BY position may return first: the store defines no
\* order among rows of equal position
FirstByPosition(rows) == {r \in rows : \A q \in rows : r.position <= q.position}

\* _get_root_requirement_group: the rows fetchone() may return ({} when none)
_get_root_requirement_group(d, course) ==
    FirstByPosition({g \in d.req_groups : g.course = course /\ g.parent_id = NULL})

\* _get_child_groups, as a set of rows
_get_child_groups(d, parent_id) == {g \in d.req_groups : g.parent_id = parent_id}

\* _get_individual_requirement: the rows with that id (at most one)
_get_individual_requirement(d, individual_id) ==
    {r \in d.individual_reqs : r.id = individual_id}

\* the program compared without regard to letter case
_evaluate_condition_IgnoreCase(d, individual_id, program, level, minor) ==
    LET found == _get_individual_requirement(d, individual_id)
    IN IF found = {} THEN FALSE
       ELSE LET req == CHOOSE r \in found : TRUE
            IN IF req.type = "PROGRAM"
               THEN (IF req.operator = "=" THEN lower(program) = lower(req.value)
                     ELSE IF req.operator = "!=" THEN lower(program) # lower(req.value)
                     ELSE FALSE)
               ELSE IF req.type = "LEVEL"
               THEN (IF req.operator = "=" THEN level = req.value
                     ELSE IF req.operator = ">=" THEN _level_greater_equal(level, req.value)
                     ELSE FALSE)
               ELSE IF req.type = "MINOR"
               THEN (IF req.operator = "=" THEN minor = req.value ELSE FALSE)
               ELSE FALSE

\* _evaluate_condition
_evaluate_condition(d, individual_id, program, level, minor) ==
    LET found == _get_individual_requirement(d, individual_id)
    IN IF found = {} THEN FALSE
       ELSE LET req == CHOOSE r \in found : TRUE
            IN IF req.type = "PROGRAM"
               THEN (IF req.operator = "=" THEN program = req.value
                     ELSE IF req.operator = "!=" THEN program # req.value
                     ELSE FALSE)
               ELSE IF req.type = "LEVEL"
               THEN (IF req.operator = "=" THEN level = req.value
                     ELSE IF req.operator = ">=" THEN _level_greater_equal(level, req.value)
                     ELSE FALSE)
               ELSE IF req.type = "MINOR"
               THEN (IF req.operator = "=" THEN minor = req.value ELSE FALSE)
               ELSE FALSE

\* the combinator forced to AND where the source forces OR
Combinator_ForcedAnd(d, group, first) ==
    IF first.type = "CONDITION"
    THEN (IF _get_individual_requirement(d, first.individual_id) = {}
          THEN "PASS" ELSE "AND")
    ELSE group.type

\* the stored type applied whatever the first child is
Combinator_StoredType(d, group, first) ==
    IF first.type = "CONDITION"
    THEN (IF _get_individual_requirement(d, first.individual_id) = {}
          THEN "PASS" ELSE group.type)
    ELSE group.type

\* the combinator _evaluate_requirement_group applies to a group whose first child
\* is `first`: "PASS" stands for the early return True
Combinator(d, group, first) ==
    IF first.type = "CONDITION"
    THEN (IF _get_individual_requirement(d, first.individual_id) = {}
          THEN "PASS" ELSE "OR")
    ELSE group.type

\* _evaluate_requirement_group: the set of values the call may return (more than
\* one only when rows of equal position compete for children[0])
RECURSIVE _evaluate_requirement_group(_, _, _, _, _)
_evaluate_requirement_group(d, group, program, level, minor) ==
    IF group.type = "CONDITION"
    THEN {_evaluate_condition(d, group.individual_id, program, level, minor)}
    ELSE LET children == _get_child_groups(d, group.id)
         IN IF children = {} THEN {TRUE}
            ELSE LET outcome == [c \in children |->
                                    _evaluate_requirement_group(d, c, program, level, minor)]
                     all == {b \in BOOLEAN :
                                IF b THEN \A c \in children : TRUE \in outcome[c]
                                ELSE \E c \in children : FALSE \in outcome[c]}
                     any == {b \in BOOLEAN :
                                IF b THEN \E c \in children : TRUE \in outcome[c]
                                ELSE \A c \in children : FALSE \in outcome[c]}
                 IN UNION { LET operator == Combinator(d, group, first)
                            IN IF operator = "PASS" THEN {TRUE}
                               ELSE IF operator = "AND" THEN all ELSE any
                            : first \in FirstByPosition(children) }

\* a course without a stored root taken as having no requirement
_can_take_course_NoRootPasses(d, course, program, level, minor) ==
    LET roots == _get_root_requirement_group(d, course)
    IN IF roots = {} THEN {TRUE}
       ELSE UNION {_evaluate_requirement_group(d, root, program, level, minor)
                   : root \in roots}

\* _can_take_course: the set of values the call may return
_can_take_course(d, course, program, level, minor) ==
    LET roots == _get_root_requirement_group(d, course)
    IN IF roots = {} THEN {FALSE}
       ELSE UNION {_evaluate_requirement_group(d, root, program, level, minor)
                   : root \in roots}

\* the student profiles asked about
Programs ==
    { CivilEngineering, MechanicalEngineering, lower(CivilEngineering), Music, PyInt(7) }
Terms == { L2A, L3A, L4B, lower(L3A) }
Minors == { None, Music, Str(<<>>), Str(<<" ", "\t">>) }

\* get_available_courses(program, term, minor)
GetAvailableCourses(program, term, minor) ==
    /\ UNCHANGED db
    /\ \/ /\ ~_validate_inputs(program, term, minor)
          /\ ret' = [op |-> "get_available_courses", program |-> program,
                     term |-> term, minor |-> minor, result |-> <<>>,
                     looked_up |-> {}]
       \/ /\ _validate_inputs(program, term, minor)
          /\ LET courses_with_reqs == _get_courses_with_requirements(db)
                 may_return == [course \in Range(courses_with_reqs) |->
                                   _can_take_course(db, course, program, term, minor)]
             IN \E can_take \in {f \in [DOMAIN may_return -> BOOLEAN] :
                                    \A course \in DOMAIN f : f[course] \in may_return[course]} :
                    ret' = [op |-> "get_available_courses", program |-> program,
                            term |-> term, minor |-> minor,
                            result |-> SortedSeq(SelectSeq(courses_with_reqs,
                                                           LAMBDA course : can_take[course])),
                            looked_up |-> Range(courses_with_reqs)]

----------------------------------------------------------------------------
(* The requirement tree store on its own *)

Init ==
    /\ db = EmptyDB
    /\ ret = [op |-> "idle"]

NextStore == Store

SpecStore == Init /\ [][NextStore]_vars

----------------------------------------------------------------------------
(* The store loaded, then asked for eligible courses: one call at a time, the
   caller taking each return value before the next call *)

\* a load that commits (no statement raises)
Load ==
    /\ ret.op = "idle"
    /\ \E ai_output \in Batches :
          \E order \in Orders(NewKeys(db, ai_output)) :
             /\ Cardinality(Roots(db)) + NumDocuments(ai_output) <= MaxEvalTrees
             /\ StoreCourseRequirements(ai_output, order, 0)

Query ==
    /\ ret.op = "idle"
    /\ \E program \in Programs, term \in Terms, minor \in Minors :
          GetAvailableCourses(program, term, minor)

\* the caller takes the return value
Return ==
    /\ ret.op # "idle"
    /\ ret' = [op |-> "idle"]
    /\ UNCHANGED db

NextEval == Load \/ Query \/ Return

SpecEval == Init /\ [][NextEval]_vars

----------------------------------------------------------------------------
(* Validation and loading of the extracted documents *)

GoodLeaves ==
    { Leaf("PROGRAM", "=", CivilEngineering), Leaf("PROGRAM", "!=", MechanicalEngineering),
      Leaf("LEVEL", ">=", L2B), Leaf("LEVEL", "=", L4A), Leaf("MINOR", "=", Music) }
\* a leaf with its operator replaced
WithOperator(leaf, o) == [leaf EXCEPT !.operator = o]
OtherOperators == {"=", "!=", ">=", "<", "AND"}
BadLeaves ==
    { [type |-> "LEVEL", operator |-> ">="],               \* no value
      Leaf("GPA", ">=", L2B),                              \* unknown type
      Leaf("MINOR", "=", PyInt(3)),                        \* value not a str
      Leaf("LEVEL", ">=", Str(<<"5","A">>)),               \* no such level
      Leaf("PROGRAM", "=", Pharmacy),                       \* not an engineering program
      Leaf("PROGRAM", "=", lower(CivilEngineering)),       \* not the catalog spelling
      Str(<<"x">>) }                                       \* not a dict
ValLeaves == {WithOperator(l, o) : l \in GoodLeaves, o \in OtherOperators} \cup BadLeaves

Operators == {"AND", "OR"}
Nested1 ==
    {Group(o, <<l>>) : o \in Operators, l \in ValLeaves}
    \cup {Group(o, <<>>) : o \in Operators}
    \cup {Group("XOR", <<l>>) : l \in GoodLeaves}
Nested2 ==
    {Group(o, <<Leaf("MINOR", "=", Music), g>>) : o \in Operators, g \in Nested1}

\* the documents given to _validate_requirements_structure
ValDocs ==
    { None, Str(<<"x">>), List(<<>>),
      [conditions |-> List(<<>>)],                          \* no operator
      [operator |-> "AND"],                                 \* no conditions
      [operator |-> "OR", conditions |-> None],             \* conditions not a list
      [operator |-> "OR", conditions |-> Leaf("MINOR", "=", Music)] }
    \cup Nested1
    \cup {Group("AND", <<Leaf("LEVEL", ">=", L2B), c>>) : c \in ValLeaves \cup Nested1 \cup Nested2}

ValidateRequirementsStructure(course, requirements) ==
    /\ ret' = [op |-> "_validate_requirements_structure", course |-> course,
               requirements |-> requirements,
               result |-> _validate_requirements_structure(requirements)]
    /\ UNCHANGED db

\* the files of a subject directory
File(course, parsed) ==
    [course |-> course, requirements_description |-> Str(<<"x">>),
     parsed_requirements |-> parsed]
JsonFiles ==
    { File(ECE105.code, Dict(<<<<ECE105.code, DocAndLevelProgram>>>>)),
      File(ECE105.code, Dict(<<<<ECE105.code, None>>>>)),
      File(AE100.code, Dict(<<<<AE100.code, DocNested>>>>)),
      File(AE100.code, Dict(<<<<AE100.code,
                                Group("AND", <<Leaf("MINOR", ">=", Music)>>)>>>>)),
      File(ME101.code, Dict(<<<<ECE105.code, DocOrProgramMinor>>,
                              <<ME101.code, DocEmpty>>>>)),
      File(ME101.code, None),
      [course |-> ME101.code, requirements_description |-> Str(<<"x">>),
       raw_response |-> Str(<<"x">>)] }

LoadSubjectRequirements(json_files) ==
    /\ ret' = [op |-> "load_subject_requirements", json_files |-> json_files,
               result |-> load_subject_requirements(json_files)]
    /\ UNCHANGED db

Validate ==
    \E requirements \in ValDocs : ValidateRequirementsStructure(ECE105.code, requirements)

LoadSubject ==
    \E n \in 0..MaxFiles : \E json_files \in [1..n -> JsonFiles] :
        LoadSubjectRequirements(json_files)

NextValidate == Validate \/ LoadSubject

SpecValidate == Init /\ [][NextValidate]_vars

----------------------------------------------------------------------------
(* Leaf conditions evaluated one at a time *)

\* the leaf conditions stored
CondLeaves ==
    {Leaf("LEVEL", o, valid_levels[i]) : o \in {"=", ">=", "<"}, i \in DOMAIN valid_levels}
    \cup {Leaf("PROGRAM", o, CivilEngineering) : o \in {"=", "!=", ">="}}
    \cup {Leaf("MINOR", o, Music) : o \in {"=", "!="}}
    \cup {Leaf("GPA", "=", Music)}

\* a store holding one course whose document has the one leaf
InitCond ==
    /\ \E leaf \in CondLeaves :
          db = process_all_courses(EmptyDB, <<<<ECE105.code, Group("OR", <<leaf>>)>>>>,
                                   <<<<leaf.type, leaf.operator, leaf.value>>>>, 0).db
    /\ ret = [op |-> "idle"]

EvaluateCondition(individual_id, program, level, minor) ==
    /\ ret' = [op |-> "_evaluate_condition", individual_id |-> individual_id,
               program |-> program, level |-> level, minor |-> minor,
               result |-> _evaluate_condition(db, individual_id, program, level, minor)]
    /\ UNCHANGED db

NextCond ==
    \E individual_id \in {r.id : r \in db.individual_reqs} \cup {MaxId(db.individual_reqs) + 1} :
        \E program \in {CivilEngineering, MechanicalEngineering},
           level \in Range(valid_levels), minor \in {None, Music} :
            EvaluateCondition(individual_id, program, level, minor)

SpecCond == InitCond /\ [][NextCond]_vars

----------------------------------------------------------------------------
(* Properties of the eligibility evaluator *)

IsQuery == ret.op = "get_available_courses"
ValidQuery == IsQuery /\ _validate_inputs(ret.program, ret.term, ret.minor)
Eligible(course) == course \in Range(ret.result)
ListedCourses == Range(_get_courses_with_requirements(db))

RootsOf(d, course) == {g \in d.req_groups : g.course = course /\ g.parent_id = NULL}
ChildrenOf(d, g) == {c \in d.req_groups : c.parent_id = g.id}

\* g is a group of the given type whose children are leaf conditions of its own course
GroupOverLeaves(d, g, type) ==
    /\ g.type = type
    /\ ChildrenOf(d, g) # {}
    /\ \A c \in ChildrenOf(d, g) : c.type = "CONDITION" /\ c.course = g.course

\* the leaf condition of row c is satisfied by the profile of the query
LeafSatisfied(c) ==
    _evaluate_condition(db, c.individual_id, ret.program, ret.term, ret.minor)

\* the individual requirement a leaf row refers to
LeafKey(d, c) ==
    LET r == CHOOSE r \in d.individual_reqs : r.id = c.individual_id
    IN <<r.type, r.operator, r.value>>

\* C1: a course whose one stored root is an AND group over leaf conditions is
\* reported eligible exactly when every one of its leaf conditions is satisfied
\* (AND{LEVEL >= 2B, PROGRAM = Civil Engineering}: eligible for (Civil
\* Engineering, 3A), not for (Civil Engineering, 2A) nor (Mechanical Engineering, 4B))
C1_AndRootNeedsEveryLeaf ==
    ValidQuery =>
        \A course \in ListedCourses :
            \A g \in RootsOf(db, course) :
                (RootsOf(db, course) = {g} /\ GroupOverLeaves(db, g, "AND")) =>
                    (Eligible(course) <=> \A c \in ChildrenOf(db, g) : LeafSatisfied(c))

\* C2: a course whose stored roots are OR groups over leaf conditions is reported
\* eligible as soon as one leaf condition of each root is satisfied; so with a leaf
\* MINOR = M every profile whose minor is M is eligible, whatever its program and level
C2_OrRootAnyLeaf ==
    ValidQuery =>
        \A course \in ListedCourses :
            (/\ RootsOf(db, course) # {}
             /\ \A g \in RootsOf(db, course) :
                    /\ GroupOverLeaves(db, g, "OR")
                    /\ \E c \in ChildrenOf(db, g) : LeafSatisfied(c))
            => Eligible(course)

\* C2 witness: a course with root OR{PROGRAM = Mechanical Engineering, MINOR = Music}
\* is eligible for a Civil Engineering student whose minor is Music
C2_Witness ==
    /\ ValidQuery
    /\ ret.program = CivilEngineering
    /\ ret.minor = Music
    /\ \E course \in ListedCourses :
          /\ Eligible(course)
          /\ \E g \in RootsOf(db, course) :
                /\ RootsOf(db, course) = {g}
                /\ GroupOverLeaves(db, g, "OR")
                /\ {LeafKey(db, c) : c \in ChildrenOf(db, g)} =
                      { <<"PROGRAM", "=", MechanicalEngineering>>, <<"MINOR", "=", Music>> }

\* the 8-step level sequence 1A < 1B < ... < 4B
LevelSequence == <<L1A, L1B, L2A, L2B, L3A, L3B, L4A, L4B>>
LevelIndex(l) == CHOOSE i \in DOMAIN LevelSequence : LevelSequence[i] = l

\* C3: for student level t and required level v of the sequence, LEVEL >= v is
\* satisfied exactly when t is at or after v, and LEVEL = v exactly when t = v
C3_LevelConditions ==
    ret.op = "_evaluate_condition" =>
        \A req \in db.individual_reqs :
            (/\ req.id = ret.individual_id
             /\ req.type = "LEVEL"
             /\ req.value \in Range(LevelSequence)
             /\ ret.level \in Range(LevelSequence))
            => /\ req.operator = ">=" =>
                    (ret.result <=> LevelIndex(ret.level) >= LevelIndex(req.value))
               /\ req.operator = "=" => (ret.result <=> ret.level = req.value)

\* C3 witness: LEVEL >= 2B evaluated against 3A is satisfied
C3_Witness ==
    /\ ret.op = "_evaluate_condition"
    /\ ret.level = L3A
    /\ ret.result
    /\ \E req \in db.individual_reqs :
          req.id = ret.individual_id /\ req.type = "LEVEL"
          /\ req.operator = ">=" /\ req.value = L2B

\* two strs equal up to the case of their letters
SameLetter(a, b) ==
    a = b \/ \E k \in DOMAIN UpperCase : {a, b} = {UpperCase[k], LowerCase[k]}
EqualIgnoringCase(x, y) ==
    Len(x.s) = Len(y.s) /\ \A i \in DOMAIN x.s : SameLetter(x.s[i], y.s[i])
ProgramRecognized(program) ==
    IsStr(program) /\ \E i \in DOMAIN valid_programs : EqualIgnoringCase(program, valid_programs[i])
TermRecognized(term) == IsStr(term) /\ term \in Range(LevelSequence)
MinorBlank(minor) ==
    minor # None /\ (IsStr(minor) => \A i \in DOMAIN minor.s : minor.s[i] \in Whitespace)

\* C4: with an unrecognized program or term, or a minor that is empty or only
\* whitespace, get_available_courses returns the empty list and looks no course up
C4_InvalidInputsReturnEmpty ==
    (IsQuery /\ (\/ ~ProgramRecognized(ret.program)
                 \/ ~TermRecognized(ret.term)
                 \/ MinorBlank(ret.minor)))
    => ret.result = <<>> /\ ret.looked_up = {}

\* C4 witness: a whitespace-only minor with a valid program and term, on a store
\* that holds requirement trees
C4_Witness ==
    /\ IsQuery
    /\ ProgramRecognized(ret.program) /\ TermRecognized(ret.term)
    /\ ret.minor = Str(<<" ", "\t">>)
    /\ ret.result = <<>>
    /\ \E course \in ListedCourses : RootsOf(db, course) # {}

\* C5: for valid inputs the result is in ascending code order without repeats,
\* holds only allow-listed courses with a stored root whose tree may evaluate to
\* satisfied, and holds every allow-listed course whose tree must
C5_ExactlySatisfiedCourses ==
    ValidQuery =>
        /\ \A i \in 1..(Len(ret.result) - 1) : StrLess(ret.result[i], ret.result[i + 1])
        /\ \A course \in Range(ret.result) :
              /\ \E c \in db.courses : c.code = course /\ c.subject \in AllowedSubjects
              /\ RootsOf(db, course) # {}
              /\ \E g \in RootsOf(db, course) :
                    TRUE \in _evaluate_requirement_group(db, g, ret.program, ret.term, ret.minor)
        /\ \A c \in db.courses :
              (/\ c.subject \in AllowedSubjects
               /\ RootsOf(db, c.code) # {}
               /\ \A g \in RootsOf(db, c.code) :
                     _evaluate_requirement_group(db, g, ret.program, ret.term, ret.minor) = {TRUE})
              => Eligible(c.code)

\* C5 witness: two courses returned, in ascending order, while a third
\* allow-listed course has no stored root and is left out
C5_Witness ==
    /\ ValidQuery
    /\ Len(ret.result) = 2
    /\ StrLess(ret.result[1], ret.result[2])
    /\ \E c \in db.courses :
          /\ c.subject \in AllowedSubjects
          /\ RootsOf(db, c.code) = {}
          /\ c.code \notin Range(ret.result)

----------------------------------------------------------------------------
(* Properties of the requirement tree store *)

IsValidation == ret.op = "_validate_requirements_structure"

\* the requirement grammar: a group has an operator AND/OR and a conditions list;
\* a leaf has a type, an operator and a value allowed for the type
AllowedOperators(type) ==
    CASE type = "PROGRAM" -> {"=", "!="}
      [] type = "LEVEL" -> {"=", ">="}
      [] type = "MINOR" -> {"="}
IsGroupShaped(c) ==
    /\ IsDict(c)
    /\ DOMAIN c = {"operator", "conditions"}
    /\ c.operator \in {"AND", "OR"}
    /\ IsList(c.conditions)
\* a leaf of the grammar, but for its operator
IsLeafShaped(c) ==
    /\ IsDict(c)
    /\ DOMAIN c = {"type", "operator", "value"}
    /\ c.type \in {"PROGRAM", "LEVEL", "MINOR"}
    /\ IsStr(c.value)
    /\ c.type = "LEVEL" => c.value \in Range(LevelSequence)
    /\ c.type = "PROGRAM" =>
          \E q \in programs : Like(q.faculty, Engineering) /\ q.name = c.value
RECURSIVE GrammarButOperators(_)
GrammarButOperators(c) ==
    \/ IsLeafShaped(c)
    \/ /\ IsGroupShaped(c)
       /\ \A i \in DOMAIN c.conditions.items : GrammarButOperators(c.conditions.items[i])
\* the number of leaves whose operator is outside the set of their type
RECURSIVE OperatorsOutside(_)
RECURSIVE OperatorsOutsideIn(_)
OperatorsOutsideIn(items) ==
    IF items = <<>> THEN 0
    ELSE OperatorsOutside(Head(items)) + OperatorsOutsideIn(Tail(items))
OperatorsOutside(c) ==
    IF IsLeafShaped(c)
    THEN (IF c.operator \in AllowedOperators(c.type) THEN 0 ELSE 1)
    ELSE OperatorsOutsideIn(c.conditions.items)

\* C6: a document of the grammar validates; one of the grammar but for the
\* operator of a leaf, at any depth, being outside the set of its type does not
C6_GrammarValidates ==
    (/\ IsValidation
     /\ IsGroupShaped(ret.requirements)
     /\ GrammarButOperators(ret.requirements))
    => (ret.result <=> OperatorsOutside(ret.requirements) = 0)

\* C6 witness: MINOR != Music two groups below the root is rejected
C6_Witness ==
    /\ IsValidation
    /\ ret.requirements =
          Group("AND", <<Leaf("LEVEL", ">=", L2B),
                         Group("OR", <<Leaf("MINOR", "=", Music),
                                       Group("AND", <<Leaf("MINOR", "!=", Music)>>)>>)>>)
    /\ OperatorsOutside(ret.requirements) = 1
    /\ ~ret.result

\* C7: a null requirements document is reported valid
C7_NullDocumentValid ==
    (IsValidation /\ ret.requirements = None) => ret.result

IsStoreCall(r) == r.op = "store_course_requirements"

\* the tree below row g, without the row ids
RECURSIVE TreeContent(_, _)
TreeContent(d, g) ==
    [course |-> g.course, type |-> g.type, individual_id |-> g.individual_id,
     position |-> g.position,
     children |-> {TreeContent(d, c) : c \in ChildrenOf(d, g)}]
StoredTrees(d, course) == {TreeContent(d, g) : g \in RootsOf(d, course)}
LoadedCourses(ai_output) ==
    {ai_output[n][1] : n \in {m \in DOMAIN ai_output : ai_output[m][2] # None}}

C9_FailedLoadLeavesNothing ==
    [][ (IsStoreCall(ret') /\ ret'.raised)
        => /\ db'.req_groups = db.req_groups
           /\ db'.individual_reqs = db.individual_reqs ]_vars

\* C9 witness: a load that raised while inserting leaf rows, on a store that
\* already held rows
C9_Witness ==
    /\ IsStoreCall(ret) /\ ret.raised
    /\ ret.cause = "insert_leaf"
    /\ db.req_groups # {}

\* C10: each course that has req_groups rows has exactly one row with parent_id null
C10_OneRootPerCourse ==
    \A course \in {g.course : g \in db.req_groups} :
        Cardinality(RootsOf(db, course)) = 1

----------------------------------------------------------------------------
(* Shared individual requirements *)

\* the number of leaves of a document (a group or a leaf) with the given triple
RECURSIVE LeafCount(_, _)
RECURSIVE LeafCountIn(_, _, _)
LeafCount(condition, key) ==
    IF {"type", "operator", "value"} \subseteq DOMAIN condition
    THEN (IF <<condition.type, condition.operator, condition.value>> = key THEN 1 ELSE 0)
    ELSE LeafCountIn(condition.conditions.items, Len(condition.conditions.items), key)
LeafCountIn(conditions, n, key) ==
    IF n = 0 THEN 0
    ELSE LeafCountIn(conditions, n - 1, key) + LeafCount(conditions[n], key)
\* the same over the documents of a batch
RECURSIVE BatchLeafCount(_, _, _)
BatchLeafCount(ai_output, n, key) ==
    IF n = 0 THEN 0
    ELSE BatchLeafCount(ai_output, n - 1, key)
         + (IF ai_output[n][2] = None THEN 0 ELSE LeafCount(ai_output[n][2], key))
\* the triples of the documents the model loads
BatchKeys ==
    { <<"LEVEL", ">=", L2B>>, <<"PROGRAM", "=", CivilEngineering>>,
      <<"PROGRAM", "=", MechanicalEngineering>>, <<"MINOR", "=", Music>>,
      <<"PROGRAM", "!=", CivilEngineering>> }
\* the individual_reqs rows with the given triple
RowsOfKey(d, key) ==
    {r \in d.individual_reqs : <<r.type, r.operator, r.value>> = key}
ConditionRows(d) == {g \in d.req_groups : g.type = "CONDITION"}

\* C11: individual_reqs never holds a triple twice, every CONDITION row refers to
\* a row of individual_reqs, and a committed load adds, for each triple, as many
\* CONDITION rows referring to the one row of that triple as its documents have
\* leaves with that triple
C11_SharedIndividualReqs ==
    /\ [](/\ \A key \in BatchKeys : Cardinality(RowsOfKey(db, key)) <= 1
          /\ \A g \in ConditionRows(db) :
                \E r \in db.individual_reqs : r.id = g.individual_id)
    /\ [][ (IsStoreCall(ret') /\ ~ret'.raised)
           => \A key \in BatchKeys :
                 Cardinality({g \in ConditionRows(db') \ ConditionRows(db) :
                                \E r \in RowsOfKey(db', key) : r.id = g.individual_id})
                 = BatchLeafCount(ret'.ai_output, Len(ret'.ai_output), key) ]_vars

\* C11 witness: leaves of two courses, stored by two loads, refer to the same
\* individual_reqs row
C11_Witness ==
    /\ IsStoreCall(ret) /\ ~ret.raised
    /\ \E g1, g2 \in ConditionRows(db) :
          /\ g1.course # g2.course
          /\ g1.individual_id = g2.individual_id
          /\ g1.course \notin LoadedCourses(ret.ai_output)
          /\ g2.course \in LoadedCourses(ret.ai_output)

----------------------------------------------------------------------------
(* CourseIndexer and CourseSearcher: the inverted index and the ranked search *)

\* the words of the model's texts that course_synonyms mentions
W_design == Str(<<"d","e","s","i","g","n">>)
W_designs == Str(<<"d","e","s","i","g","n","s">>)
W_architecture == Str(<<"a","r","c","h","i","t","e","c","t","u","r","e">>)
W_planning == Str(<<"p","l","a","n","n","i","n","g">>)
W_modeling == Str(<<"m","o","d","e","l","i","n","g">>)
W_machine == Str(<<"m","a","c","h","i","n","e">>)
W_automation == Str(<<"a","u","t","o","m","a","t","i","o","n">>)
W_robotics == Str(<<"r","o","b","o","t","i","c","s">>)
W_mechanical == Str(<<"m","e","c","h","a","n","i","c","a","l">>)
W_ml == Str(<<"m","l">>)
W_analysis == Str(<<"a","n","a","l","y","s","i","s">>)
W_evaluation == Str(<<"e","v","a","l","u","a","t","i","o","n">>)
W_assessment == Str(<<"a","s","s","e","s","s","m","e","n","t">>)
W_circuit == Str(<<"c","i","r","c","u","i","t">>)
W_electronics == Str(<<"e","l","e","c","t","r","o","n","i","c","s">>)
W_electrical == Str(<<"e","l","e","c","t","r","i","c","a","l">>)
W_control == Str(<<"c","o","n","t","r","o","l">>)
W_regulation == Str(<<"r","e","g","u","l","a","t","i","o","n">>)

\* self.course_synonyms, the entries whose key occurs in the model's queries
course_synonyms ==
    { <<W_design, {W_architecture, W_planning, W_modeling}>>,
      <<W_analysis, {W_evaluation, W_assessment}>>,
      <<W_machine, {W_automation, W_robotics}>>,
      <<W_control, {W_automation, W_regulation}>>,
      <<W_circuit, {W_electronics, W_electrical}>>,
      <<W_robotics, {W_automation, W_mechanical}>> }

\* the courses the index was built from (courses.json): allow-listed subjects only
SE101 == Str(<<"S","E"," ","1","0","1">>)
IndexedCourses ==
    << [code |-> AE100.code,
        title |-> Str(<<"D","e","s","i","g","n"," ","S","t","u","d","i","o">>),
        description |-> Str(<<"d","e","s","i","g","n","/","a","n","a","l","y","s","i","s">>)],
       [code |-> ECE105.code,
        title |-> Str(<<"C","i","r","c","u","i","t","s">>),
        description |-> Str(<<"c","i","r","c","u","i","t"," ","a","n","a","l","y","s","i","s">>)],
       [code |-> ME101.code,
        title |-> Str(<<"M","a","c","h","i","n","e"," ","D","e","s","i","g","n">>),
        description |-> Str(<<"m","a","c","h","i","n","e","s">>)],
       [code |-> SE101,
        title |-> Str(<<"R","o","b","o","t","i","c","s">>),
        description |-> Str(<<"c","o","n","t","r","o","l"," ","d","e","s","i","g","n">>)] >>

\* math.log((N - df + 0.5) / (df + 0.5) + 1) in thousandths, rounded, for the
\* collection sizes N and document frequencies df of the model
IdfTable ==
    << <<288>>,
       <<693, 182>>,
       <<981, 470, 134>>,
       <<1204, 693, 357, 105>>,
       <<1386, 875, 539, 288, 87>> >>

\* the word characters of the pattern \W+ among the characters in use
WordChars == Range(Digits) \cup Range(UpperCase) \cup Range(LowerCase)

\* CourseIndexer.tokenize: [t for t in re.split(r'\W+', text.lower()) if t]
RECURSIVE SplitWords(_, _, _)
SplitWords(cs, word, acc) ==
    IF cs = <<>>
    THEN (IF word = <<>> THEN acc ELSE Append(acc, Str(word)))
    ELSE IF Head(cs) \in WordChars
         THEN SplitWords(Tail(cs), Append(word, Head(cs)), acc)
         ELSE SplitWords(Tail(cs), <<>>,
                         IF word = <<>> THEN acc ELSE Append(acc, Str(word)))
tokenize(text) == SplitWords(lower(text).s, <<>>, <<>>)

\* a + b for two strs, list.count, and the distinct items of a list in order of
\* first appearance (the key order of a dict or Counter filled from the list)
Concat(a, b) == Str(a.s \o b.s)
Space == Str(<<" ">>)
Count(xs, x) == Cardinality({i \in DOMAIN xs : xs[i] = x})
RECURSIVE Distinct(_)
Distinct(xs) ==
    IF xs = <<>> THEN <<>>
    ELSE LET init == Distinct(SubSeq(xs, 1, Len(xs) - 1))
             last == xs[Len(xs)]
         IN IF last \in Range(init) THEN init ELSE Append(init, last)
IndexOf(xs, x) == CHOOSE i \in DOMAIN xs : xs[i] = x
RECURSIVE Flatten(_)
Flatten(xss) ==
    IF xss = <<>> THEN <<>> ELSE Head(xss) \o Flatten(Tail(xss))

\* the document length taken as the number of distinct tokens
build_DistinctLength(courses) ==
    LET tokens == [i \in DOMAIN courses |->
                      tokenize(Concat(Concat(courses[i].title, Space),
                                      courses[i].description))]
        vocabulary == Distinct(Flatten(tokens))
    IN [ courses |-> courses,
         lexicon |-> [t \in Range(vocabulary) |-> IndexOf(vocabulary, t)],
         inverted_index |->
            [id \in DOMAIN vocabulary |->
                LET with == SelectSeq([i \in DOMAIN courses |-> i],
                                      LAMBDA i : vocabulary[id] \in Range(tokens[i]))
                IN [n \in DOMAIN with |->
                       [course_code |-> courses[with[n]].code,
                        tf |-> Count(tokens[with[n]], vocabulary[id])]]],
         doc_lengths |-> [i \in DOMAIN courses |->
                             [course_code |-> courses[i].code,
                              length |-> Len(Distinct(tokens[i]))]] ]

\* CourseIndexer.build: the lexicon (token -> id, ids from 1 in order of first
\* appearance), the inverted index (token id -> course code -> tf, the courses
\* in list order) and the document lengths
build(courses) ==
    LET tokens == [i \in DOMAIN courses |->
                      tokenize(Concat(Concat(courses[i].title, Space),
                                      courses[i].description))]
        vocabulary == Distinct(Flatten(tokens))
    IN [ courses |-> courses,
         lexicon |-> [t \in Range(vocabulary) |-> IndexOf(vocabulary, t)],
         inverted_index |->
            [id \in DOMAIN vocabulary |->
                LET with == SelectSeq([i \in DOMAIN courses |-> i],
                                      LAMBDA i : vocabulary[id] \in Range(tokens[i]))
                IN [n \in DOMAIN with |->
                       [course_code |-> courses[with[n]].code,
                        tf |-> Count(tokens[with[n]], vocabulary[id])]]],
         doc_lengths |-> [i \in DOMAIN courses |->
                             [course_code |-> courses[i].code, length |-> Len(tokens[i])]] ]

\* the index files the searcher loads
index == build(IndexedCourses)

\* score parameters, in thousandths
title_weight == 3000
description_weight == 1000

\* token.endswith('s')
EndsWithS(token) == token.s # <<>> /\ token.s[Len(token.s)] = "s"

\* CourseSearcher._expand_query: the set of the tokens, their synonyms, their
\* plural or singular form and the abbreviations
_expand_query(tokens) ==
    Range(tokens)
    \cup UNION {e[2] : e \in {e \in course_synonyms : e[1] \in Range(tokens)}}
    \cup {IF EndsWithS(t) THEN Str(SubSeq(t.s, 1, Len(t.s) - 1))
          ELSE Str(Append(t.s, "s")) : t \in Range(tokens)}
    \cup {W_ml : t \in {t \in Range(tokens) : t = W_machine}}

\* token in field_content.lower(): substring test
Contains(hay, needle) ==
    \E i \in 0..(Len(hay.s) - Len(needle.s)) :
        SubSeq(hay.s, i + 1, i + Len(needle.s)) = needle.s

\* CourseSearcher._calculate_field_score, in thousandths
RECURSIVE FieldScore(_, _, _, _, _)
FieldScore(query_tokens, n, field_tokens, field_content, weight) ==
    IF n = 0 THEN 0
    ELSE FieldScore(query_tokens, n - 1, field_tokens, field_content, weight)
         + (IF query_tokens[n] \in Range(field_tokens)
            THEN Count(field_tokens, query_tokens[n]) * weight
                 + (IF Contains(lower(field_content), query_tokens[n])
                    THEN weight \div 2 ELSE 0)
            ELSE 0)
_calculate_field_score(query_tokens, field_content, weight) ==
    FieldScore(query_tokens, Len(query_tokens), tokenize(lower(field_content)),
               field_content, weight)

\* the BM25 score of one posting, in thousandths: with k1 = 1.2 and b = 0.75,
\* idf * tf * 2.2 / (tf + 0.3 + 0.9 * dl / avg_doc_length), avg = total / N
bm25_score(idx, df, tf, dl) ==
    LET N == Len(idx.doc_lengths)
        total == LET RECURSIVE Sum(_)
                     Sum(n) == IF n = 0 THEN 0 ELSE Sum(n - 1) + idx.doc_lengths[n].length
                 IN Sum(N)
    IN (IdfTable[N][df] * tf * 22 * total) \div (10 * tf * total + 3 * total + 9 * dl * N)

\* a dict kept as the list of its items <<key, value>> in insertion order
ItemAdd(items, key, delta) ==
    IF \E i \in DOMAIN items : items[i][1] = key
    THEN [i \in DOMAIN items |->
            IF items[i][1] = key THEN <<key, items[i][2] + delta>> ELSE items[i]]
    ELSE Append(items, <<key, delta>>)

\* bool(eligible_course_codes): None and the empty list are false
EligibleGiven(eligible_course_codes) ==
    eligible_course_codes # None /\ eligible_course_codes.items # <<>>

\* the BM25 loop of search over the postings of one token
RECURSIVE ScorePostings(_, _, _, _, _)
ScorePostings(idx, postings, n, eligible_course_codes, scores) ==
    IF n = 0 THEN scores
    ELSE LET before == ScorePostings(idx, postings, n - 1, eligible_course_codes, scores)
             p == postings[n]
             dl == (CHOOSE d \in Range(idx.doc_lengths) :
                        d.course_code = p.course_code).length
         IN IF /\ EligibleGiven(eligible_course_codes)
               /\ p.course_code \notin Range(eligible_course_codes.items)
            THEN before
            ELSE ItemAdd(before, p.course_code, bm25_score(idx, Len(postings), p.tf, dl))
\* the same over the token ids, in the order the list of the expanded set has
RECURSIVE ScoreTokens(_, _, _, _)
ScoreTokens(idx, token_ids, n, eligible_course_codes) ==
    IF n = 0 THEN <<>>
    ELSE ScorePostings(idx, idx.inverted_index[token_ids[n]],
                       Len(idx.inverted_index[token_ids[n]]), eligible_course_codes,
                       ScoreTokens(idx, token_ids, n - 1, eligible_course_codes))

\* course_map.get(code, {'code': code, 'title': '', 'description': ''})
CourseOf(idx, code) ==
    IF \E c \in Range(idx.courses) : c.code = code
    THEN idx.courses[CHOOSE i \in DOMAIN idx.courses :
                        /\ idx.courses[i].code = code
                        /\ \A j \in DOMAIN idx.courses :
                              idx.courses[j].code = code => j <= i]
    ELSE [code |-> code, title |-> Str(<<>>), description |-> Str(<<>>)]

\* the field scores and the boost for several matching terms added to one
\* course's BM25 score
FinalScore(idx, original_tokens, code, bm25) ==
    LET course == CourseOf(idx, code)
        title_score == _calculate_field_score(original_tokens, course.title, title_weight)
        description_score ==
            _calculate_field_score(original_tokens, course.description, description_weight)
        text == tokenize(Concat(Concat(course.title, Space), course.description))
        matching_terms ==
            Cardinality({i \in DOMAIN original_tokens : original_tokens[i] \in Range(text)})
        sum == bm25 + title_score + description_score
    IN IF matching_terms > 1 THEN (sum * (10 + 2 * matching_terms)) \div 10 ELSE sum

\* the items sorted by score upwards
RECURSIVE SortByScore_Ascending(_)
SortByScore_Ascending(items) ==
    IF items = <<>> THEN <<>>
    ELSE LET m == CHOOSE i \in DOMAIN items :
                    \A j \in DOMAIN items :
                        items[j][2] > items[i][2] \/ (items[j][2] = items[i][2] /\ i <= j)
         IN <<items[m]>> \o SortByScore_Ascending([k \in 1..(Len(items) - 1) |->
                                          IF k < m THEN items[k] ELSE items[k + 1]])

\* sorted(scores.items(), key=lambda x: x[1], reverse=True): the sort is stable,
\* items of equal score keep their order
RECURSIVE SortByScore(_)
SortByScore(items) ==
    IF items = <<>> THEN <<>>
    ELSE LET m == CHOOSE i \in DOMAIN items :
                    \A j \in DOMAIN items :
                        items[j][2] < items[i][2] \/ (items[j][2] = items[i][2] /\ i <= j)
         IN <<items[m]>> \o SortByScore([k \in 1..(Len(items) - 1) |->
                                          IF k < m THEN items[k] ELSE items[k + 1]])

\* the tokens of the expanded set that the lexicon has
KnownTokens(idx, query) ==
    {t \in _expand_query(tokenize(query)) : t \in DOMAIN idx.lexicon}

\* CourseSearcher.search; token_order is the order in which the list made of the
\* expanded set holds the tokens found in the lexicon.  scores are the final
\* scores of all scored courses, results the list returned.
search(idx, query, eligible_course_codes, top_n, token_order) ==
    LET original_tokens == tokenize(query)
        token_ids == [i \in DOMAIN token_order |-> idx.lexicon[token_order[i]]]
        bm25 == ScoreTokens(idx, token_ids, Len(token_ids), eligible_course_codes)
        scores == [i \in DOMAIN bm25 |->
                      <<bm25[i][1], FinalScore(idx, original_tokens, bm25[i][1], bm25[i][2])>>]
        sorted == SortByScore(scores)
        top_courses == SubSeq(sorted, 1, IF Len(sorted) < top_n THEN Len(sorted) ELSE top_n)
    IN [ scores |-> scores,
         results |-> [i \in DOMAIN top_courses |->
                        LET course == CourseOf(idx, top_courses[i][1])
                        IN [code |-> top_courses[i][1], title |-> course.title,
                            description |-> course.description,
                            score |-> top_courses[i][2]]] ]

----------------------------------------------------------------------------
(* Searches: the search function called directly and from the console program *)

\* number of requirement trees in the store the console program reads
MaxSearchTrees == 1

Queries ==
    { Str(<<"d","e","s","i","g","n">>),
      Str(<<"C","i","r","c","u","i","t">>),
      Str(<<"m","a","c","h","i","n","e"," ","d","e","s","i","g","n">>),
      Str(<<"a","n","a","l","y","s","i","s","/","d","e","s","i","g","n">>),
      Str(<<>>),
      Str(<<"M","u","s","i","c">>),
      Str(<<" ","m","a","c","h","i","n","e","s"," ">>) }
\* eligible_course_codes: not given, empty, and lists of codes in and out of the index
EligibleLists ==
    { None, List(<<>>), List(<<AE100.code>>), List(<<ECE105.code, ME101.code>>),
      List(<<AE100.code, ME101.code, SE101>>), List(<<CS135.code>>) }
\* top_n: small values, the default 10 and the 20 of the HTTP route
TopNs == { 1, 2, 10, 20 }

\* searcher.search(query, eligible_course_codes, top_n)
Search(query, eligible_course_codes, top_n) ==
    /\ ret.op = "idle"
    /\ \E token_order \in Orders(KnownTokens(index, query)) :
          LET r == search(index, query, eligible_course_codes, top_n, token_order)
          IN ret' = [op |-> "search",
                     eligible_course_codes |-> eligible_course_codes,
                     scores |-> r.scores,
                     query |-> query,
                     top_n |-> top_n,
                     results |-> r.results]
    /\ UNCHANGED db

\* the lists get_available_courses may return on database d
AvailableCourses(d, program, term, minor) ==
    IF ~_validate_inputs(program, term, minor) THEN { <<>> }
    ELSE LET courses_with_reqs == _get_courses_with_requirements(d)
             may_return == [course \in Range(courses_with_reqs) |->
                               _can_take_course(d, course, program, term, minor)]
         IN { SortedSeq(SelectSeq(courses_with_reqs, LAMBDA course : can_take[course])) :
                can_take \in {f \in [DOMAIN may_return -> BOOLEAN] :
                                 \A course \in DOMAIN f : f[course] \in may_return[course]} }

\* main(): the eligible courses of the profile, then, on choice 2 with a query,
\* the search restricted to them
Main(program, term, minor, query) ==
    /\ ret.op = "idle"
    /\ \E courses \in AvailableCourses(db, strip(program), term, minor) :
          IF courses # <<>> /\ Truthy(strip(query))
          THEN \E token_order \in Orders(KnownTokens(index, strip(query))) :
                  LET r == search(index, strip(query), List(courses), 10, token_order)
                  IN ret' = [courses |-> courses,
                             op |-> "main",
                             query |-> strip(query),
                             results |-> r.results,
                             searched |-> TRUE]
          ELSE ret' = [courses |-> courses,
                       op |-> "main",
                       query |-> strip(query),
                       results |-> <<>>,
                       searched |-> FALSE]
    /\ UNCHANGED db

\* the store filled before the console program runs
LoadForSearch ==
    /\ ret.op = "idle"
    /\ \E ai_output \in Batches :
          \E order \in Orders(NewKeys(db, ai_output)) :
             /\ Cardinality(Roots(db)) + NumDocuments(ai_output) <= MaxSearchTrees
             /\ StoreCourseRequirements(ai_output, order, 0)

SearchCall ==
    \E query \in Queries, eligible_course_codes \in EligibleLists, top_n \in TopNs :
        Search(query, eligible_course_codes, top_n)
MainCall ==
    \E program \in {CivilEngineering, MechanicalEngineering}, term \in {L2A, L4B},
       minor \in {None, Music}, query \in Queries :
        Main(program, term, minor, query)

NextSearch == LoadForSearch \/ SearchCall \/ MainCall \/ Return

SpecSearch == Init /\ [][NextSearch]_vars

----------------------------------------------------------------------------
(* api_server: the HTTP routes *)

\* bool(v) of a parsed JSON value: null, "", 0, [] and {} are false
PyTruthy(v) ==
    IF DOMAIN v = {} THEN FALSE
    ELSE IF IsDict(v) THEN TRUE
    ELSE CASE v.py = "NoneType" -> FALSE
           [] v.py = "str" -> v.s # <<>>
           [] v.py = "int" -> v.n # 0
           [] v.py = "list" -> v.items # <<>>
           [] OTHER -> TRUE

\* the origins CORS(app, origins=[...]) allows, of which the model uses one, and
\* an origin outside the list
LocalOrigin == Str(<<"h","t","t","p",":","/","/","l","o","c","a","l","h","o","s","t",":","3","0","0","0">>)
OtherOrigin == Str(<<"h","t","t","p",":","/","/","e","x","a","m","p","l","e",".","o","r","g">>)
allowed_origins == { LocalOrigin }
Star == Str(<<"*">>)

\* request.headers.get('Origin', '*'); origin = None when the request has no Origin
OriginOrStar(origin) == IF origin = None THEN Star ELSE origin

\* a response: status, JSON body and the headers the view added, in order
Response(status, body, headers) == [status |-> status, body |-> body, headers |-> headers]
AllowOrigin(origin) == <<"Access-Control-Allow-Origin", OriginOrStar(origin)>>
\* the response to OPTIONS on the three routes
Preflight(origin) ==
    Response(200, <<>>,
             << AllowOrigin(origin),
                <<"Access-Control-Allow-Headers", "Content-Type,Authorization">>,
                <<"Access-Control-Allow-Methods", "GET,PUT,POST,DELETE,OPTIONS">>,
                <<"Access-Control-Allow-Credentials", "true">> >>)

\* the except branch: jsonify({'error': str(e)}), 500 with the header added
ErrorResponse(message, origin) ==
    Response(500, [error |-> message], <<AllowOrigin(origin)>>)

\* get_eligible_courses(): the responses the view may return for the parsed body
\* data; raises says that the evaluator raised (a database error)
get_eligible_courses(d, method, origin, data, raises) ==
    IF method = "OPTIONS" THEN { Preflight(origin) }
    ELSE IF ~PyTruthy(data)
    THEN { Response(400, [error |-> "No JSON data provided"], <<>>) }
    ELSE IF ~IsDict(data)       \* data.get raises AttributeError
    THEN { ErrorResponse("object has no attribute 'get'", origin) }
    ELSE LET program == DictGet(data, "program", Str(<<>>))
             term == DictGet(data, "term", Str(<<>>))
             minor == DictGet(data, "minor", None)
         IN IF ~PyTruthy(program) \/ ~PyTruthy(term)
            THEN { Response(400, [error |-> "Missing program or term"], <<>>) }
            ELSE IF raises
            THEN { ErrorResponse("database error", origin) }
            ELSE { Response(200, [courses |-> courses_with_metadata,
                                  count |-> Len(courses_with_metadata)],
                            <<AllowOrigin(origin)>>) :
                     courses_with_metadata \in AvailableCourses(d, program, term, minor) }

\* the token orders of a search for a query that is a str
TokenOrders(query) ==
    IF IsStr(query) THEN Orders(KnownTokens(index, query)) ELSE { <<>> }

\* search_courses()
search_courses(method, origin, data, raises) ==
    IF method = "OPTIONS" THEN { Preflight(origin) }
    ELSE IF ~PyTruthy(data)
    THEN { Response(400, [error |-> "No JSON data provided"], <<>>) }
    ELSE IF ~IsDict(data)
    THEN { ErrorResponse("object has no attribute 'get'", origin) }
    ELSE LET query == DictGet(data, "query", Str(<<>>))
             eligible_course_codes == DictGet(data, "eligible_course_codes", List(<<>>))
         IN IF ~PyTruthy(query)
            THEN { Response(400, [error |-> "Missing query parameter"], <<>>) }
            ELSE IF raises \/ ~IsStr(query)     \* tokenize of a non-str raises
            THEN { ErrorResponse("search failed", origin) }
            ELSE { LET results == search(index, query, eligible_course_codes, 20,
                                         token_order).results
                   IN Response(200, [results |-> results, count |-> Len(results)],
                               <<AllowOrigin(origin)>>) :
                     token_order \in TokenOrders(query) }

\* search(): GET /search?q=...
search_route(method, origin, q, raises) ==
    IF method = "OPTIONS" THEN { Preflight(origin) }
    ELSE LET query == IF q = None THEN Str(<<>>) ELSE q
         IN IF ~PyTruthy(query)
            THEN { Response(400, [error |-> "Missing query parameter"], <<>>) }
            ELSE IF raises
            THEN { ErrorResponse("search failed", origin) }
            ELSE { Response(200, search(index, query, None, 10, token_order).results,
                            <<AllowOrigin(origin)>>) :
                     token_order \in TokenOrders(query) }

\* health_check()
health_check == Response(200, [status |-> "healthy", message |-> "API server is running"], <<>>)

\* CORS(app, origins=[...]): after each request the extension adds the header
\* for a request whose Origin is one of the configured origins
Cors(response, origin) ==
    IF origin \in allowed_origins
    THEN [response EXCEPT !.headers = @ \o <<<<"Access-Control-Allow-Origin", origin>>>>]
    ELSE response

\* the request bodies of POST /get-eligible-courses
EligibleBodies ==
    { None, <<>>, List(<<>>), List(<<PyInt(1)>>), Music,
      [program |-> MechanicalEngineering],
      [term |-> L2A],
      [program |-> Str(<<>>), term |-> L2A],
      [program |-> PyInt(0), term |-> L2A],
      [program |-> PyInt(7), term |-> L2A],
      [program |-> MechanicalEngineering, term |-> L2A],
      [program |-> CivilEngineering, term |-> L4B],
      [program |-> lower(CivilEngineering), term |-> L3A, minor |-> Music],
      [program |-> MechanicalEngineering, term |-> L4B, minor |-> Str(<<>>)] }
\* the request bodies of POST /search-courses
SearchBodies ==
    { None, <<>>, List(<<PyInt(1)>>),
      [eligible_course_codes |-> List(<<AE100.code>>)],
      [query |-> Str(<<>>)],
      [query |-> PyInt(7)],
      [query |-> W_design],
      [eligible_course_codes |-> List(<<>>), query |-> W_design],
      [eligible_course_codes |-> List(<<ME101.code, SE101>>), query |-> W_design],
      [eligible_course_codes |-> List(<<AE100.code>>), query |-> W_circuit] }
Origins == { None, LocalOrigin, OtherOrigin }

\* one request served: the view's response, then the extension's headers
Serve(route, method, origin, input, raises, responses) ==
    /\ ret.op = "idle"
    /\ \E response \in responses :
          ret' = [op |-> "http",
                  origin |-> origin,
                  method |-> method,
                  raises |-> raises,
                  response |-> Cors(response, origin),
                  route |-> route,
                  input |-> input]
    /\ UNCHANGED db

GetEligibleCourses ==
    \E method \in {"POST", "OPTIONS"}, origin \in Origins, data \in EligibleBodies,
       raises \in BOOLEAN :
        Serve("/get-eligible-courses", method, origin, data, raises,
              get_eligible_courses(db, method, origin, data, raises))
SearchCourses ==
    \E method \in {"POST", "OPTIONS"}, origin \in Origins, data \in SearchBodies,
       raises \in BOOLEAN :
        Serve("/search-courses", method, origin, data, raises,
              search_courses(method, origin, data, raises))
SearchRoute ==
    \E method \in {"GET", "OPTIONS"}, origin \in Origins,
       q \in {None, Str(<<>>), W_design, W_machine}, raises \in BOOLEAN :
        Serve("/search", method, origin, q, raises, search_route(method, origin, q, raises))
HealthCheck ==
    \E origin \in Origins :
        Serve("/health", "GET", origin, None, FALSE, { health_check })

NextApi == LoadForSearch \/ GetEligibleCourses \/ SearchCourses \/ SearchRoute
           \/ HealthCheck \/ Return

SpecApi == Init /\ [][NextApi]_vars

----------------------------------------------------------------------------
(* Properties of the search *)

IsSearch == ret.op = "search"
ResultCodes == {ret.results[i].code : i \in DOMAIN ret.results}

\* C14: when a list of eligible course codes is supplied to search (the empty
\* list included), directly or by the console program, every result's code is
\* in that list
C14_ResultsWithinEligibleSet ==
    /\ (IsSearch /\ ret.eligible_course_codes # None)
          => ResultCodes \subseteq Range(ret.eligible_course_codes.items)
    /\ (ret.op = "main" /\ ret.searched)
          => ResultCodes \subseteq Range(ret.courses)

\* the tokens of the indexed text of a course
CourseTokens(code) ==
    UNION { Range(tokenize(Concat(Concat(c.title, Space), c.description))) :
              c \in {c \in Range(IndexedCourses) : c.code = code} }

\* C15: search returns min(top_n, number of scored courses) results, each code
\* once, in non-increasing order of final score, none of the scored courses
\* left out scoring strictly higher than a returned one; and a course is scored
\* only if some token of the expanded query occurs in its indexed text
C15_TopResultsByScore ==
    IsSearch =>
        /\ Len(ret.results) <= ret.top_n
        /\ Len(ret.results) =
              (IF Len(ret.scores) < ret.top_n THEN Len(ret.scores) ELSE ret.top_n)
        /\ \A i, j \in DOMAIN ret.results :
              ret.results[i].code = ret.results[j].code => i = j
        /\ \A i \in DOMAIN ret.results :
              \E k \in DOMAIN ret.scores :
                 ret.scores[k] = <<ret.results[i].code, ret.results[i].score>>
        /\ \A i \in 1..(Len(ret.results) - 1) :
              ret.results[i].score >= ret.results[i + 1].score
        /\ \A k \in DOMAIN ret.scores :
              ret.scores[k][1] \notin ResultCodes
                 => \A i \in DOMAIN ret.results : ret.scores[k][2] <= ret.results[i].score
        /\ \A k \in DOMAIN ret.scores :
              _expand_query(tokenize(ret.query)) \cap CourseTokens(ret.scores[k][1]) # {}

\* C15 witness: more courses scored than top_n, with different scores, and the
\* list cut to the best two
C15_Witness ==
    /\ IsSearch
    /\ ret.top_n = 2
    /\ Len(ret.scores) = 4
    /\ Len(ret.results) = 2
    /\ ret.results[1].score > ret.results[2].score
    /\ \E k \in DOMAIN ret.scores :
          ret.scores[k][1] \notin ResultCodes /\ ret.scores[k][2] < ret.results[2].score

----------------------------------------------------------------------------
(* Properties of the HTTP routes *)

IsHttp == ret.op = "http"

\* the JSON body is empty or lacks a non-empty program or a non-empty term
LacksProgramOrTerm(data) ==
    \/ ~PyTruthy(data)
    \/ ~IsDict(data)
    \/ "program" \notin DOMAIN data
    \/ "term" \notin DOMAIN data
    \/ ~PyTruthy(data.program)
    \/ ~PyTruthy(data.term)

\* C12: POST /get-eligible-courses answers 400 when the JSON body is empty or
\* lacks a non-empty program or term; otherwise 200 with the evaluator's list as
\* courses and its length as count, or 500 with the error message when the
\* evaluator fails
C12_EligibleCoursesStatus ==
    (IsHttp /\ ret.route = "/get-eligible-courses" /\ ret.method = "POST") =>
        IF LacksProgramOrTerm(ret.input)
        THEN ret.response.status = 400
        ELSE IF ret.raises
        THEN ret.response.status = 500 /\ ret.response.body = [error |-> "database error"]
        ELSE /\ ret.response.status = 200
             /\ ret.response.body.courses \in
                   AvailableCourses(db, ret.input.program, ret.input.term,
                                    DictGet(ret.input, "minor", None))
             /\ ret.response.body.count = Len(ret.response.body.courses)

\* the values of the Access-Control-Allow-Origin headers of the response
AllowOriginValues ==
    { ret.response.headers[i][2] :
        i \in {j \in DOMAIN ret.response.headers :
                  ret.response.headers[j][1] = "Access-Control-Allow-Origin"} }

\* C13: every response to a request with an Origin header, on every route and
\* with every status, has an Access-Control-Allow-Origin header, whose value is
\* that Origin
C13_AllowOriginEchoesOrigin ==
    (IsHttp /\ ret.origin # None) => AllowOriginValues = { ret.origin }


----------------------------------------------------------------------------
(* CourseFetcher: the course filter *)

\* number of courses in one response of the Courses endpoint
MaxCourses == 2

GRD == Str(<<"G","R","D">>)
capstone == Str(<<"c","a","p","s","t","o","n","e">>)
design_project == Str(<<"d","e","s","i","g","n"," ","p","r","o","j","e","c","t">>)
excluded_subjects == { Str(<<"P","D">>), Str(<<"W","K","R","P","T">>), Str(<<"C","O","O","P">>) }
non_credit == { Str(<<"N","O","N">>), Str(<<"X","T","R">>), Str(<<"N","G","D">>) }
pass_fail == { Str(<<"C","N","C">>), Str(<<"N","G","P">>), Str(<<"C","N","T">>), Str(<<"C","N","W">>), Str(<<"C","N","P">>), Str(<<"D","R","N">>), Str(<<"C","U","R">>) }

\* Course(...) with __post_init__: code and is_pass_fail derived
Course(subject, catalog_number, title, description, component, grading_basis, requirements_description, academic_career) ==
    [subject |-> subject,
     code |-> Concat(Concat(subject, Space), catalog_number),
     requirements_description |-> requirements_description,
     title |-> title, description |-> description,
     catalog_number |-> catalog_number, component |-> component,
     grading_basis |-> grading_basis, academic_career |-> academic_career,
     is_pass_fail |-> grading_basis \in pass_fail]

is_graduate_course(course) == course.academic_career = GRD

\* the title tested as it is, without lower()
is_capstone_course_CaseSensitive(course) ==
    Contains(course.title, capstone) \/ Contains(course.title, design_project)

is_capstone_course(course) ==
    LET title_lower == lower(course.title)
    IN Contains(title_lower, capstone) \/ Contains(title_lower, design_project)

is_excluded_subject(course) == course.subject \in excluded_subjects

is_non_credit_course(course) == course.grading_basis \in non_credit

\* Filter.filter_courses
RECURSIVE filter_courses(_)
filter_courses(courses) ==
    IF courses = <<>> THEN <<>>
    ELSE LET filtered_courses == filter_courses(SubSeq(courses, 1, Len(courses) - 1))
             course == courses[Len(courses)]
         IN IF is_graduate_course(course) THEN filtered_courses
            ELSE IF is_capstone_course(course) THEN filtered_courses
            ELSE IF is_excluded_subject(course) THEN filtered_courses
            ELSE IF is_non_credit_course(course) THEN filtered_courses
            ELSE Append(filtered_courses, course)

\* the Course built from one item of the response
CourseFromData(course_data) ==
    Course(DictGet(course_data, "subjectCode", Str(<<>>)),
           DictGet(course_data, "catalogNumber", Str(<<>>)),
           DictGet(course_data, "title", Str(<<>>)),
           DictGet(course_data, "description", Str(<<>>)),
           DictGet(course_data, "courseComponentCode", Str(<<>>)),
           DictGet(course_data, "gradingBasis", Str(<<>>)),
           DictGet(course_data, "requirementsDescription", Str(<<>>)),
           DictGet(course_data, "associatedAcademicCareer", Str(<<>>)))

\* the Course objects of the items of a response
RECURSIVE CoursesFromData(_)
CoursesFromData(items) ==
    IF items = <<>> THEN <<>>
    ELSE Append(CoursesFromData(SubSeq(items, 1, Len(items) - 1)),
                CourseFromData(items[Len(items)]))

\* DataFetcher.get_courses_for_term on the parsed response data
get_courses_for_term(data) ==
    LET courses == IF IsList(data) THEN CoursesFromData(data.items) ELSE <<>>
    IN filter_courses(courses)

\* items of the Courses endpoint's response
CourseData ==
    { [title |-> Str(<<"C","l","a","s","s","i","c","a","l"," ","M","e","c","h","a","n","i","c","s">>),
       subjectCode |-> Str(<<"E","C","E">>),
       catalogNumber |-> Str(<<"1","0","5">>),
       gradingBasis |-> Str(<<"N","U","M">>),
       associatedAcademicCareer |-> Str(<<"U","G">>)],
      [title |-> Str(<<"E","n","g","i","n","e","e","r","i","n","g"," ","D","e","s","i","g","n"," ","P","r","o","j","e","c","t">>),
       subjectCode |-> Str(<<"E","C","E">>),
       catalogNumber |-> Str(<<"4","9","8">>),
       gradingBasis |-> Str(<<"N","U","M">>),
       associatedAcademicCareer |-> Str(<<"U","G">>)],
      [title |-> Str(<<"C","A","P","S","T","O","N","E"," ","D","e","s","i","g","n">>),
       subjectCode |-> Str(<<"M","E">>),
       catalogNumber |-> Str(<<"4","8","1">>),
       gradingBasis |-> Str(<<"N","U","M">>),
       associatedAcademicCareer |-> Str(<<"U","G">>)],
      [title |-> Str(<<"P","r","o","j","e","c","t"," ","D","e","s","i","g","n">>),
       subjectCode |-> Str(<<"M","E">>),
       catalogNumber |-> Str(<<"1","0","0">>),
       gradingBasis |-> Str(<<"N","U","M">>),
       associatedAcademicCareer |-> Str(<<"U","G">>)],
      [title |-> Str(<<"M","a","c","h","i","n","e"," ","D","e","s","i","g","n">>),
       subjectCode |-> Str(<<"M","E">>),
       catalogNumber |-> Str(<<"7","0","0">>),
       gradingBasis |-> Str(<<"N","U","M">>),
       associatedAcademicCareer |-> Str(<<"G","R","D">>)],
      [title |-> Str(<<"C","a","r","e","e","r"," ","S","k","i","l","l","s">>),
       subjectCode |-> Str(<<"P","D">>),
       catalogNumber |-> Str(<<"1","0">>),
       gradingBasis |-> Str(<<"C","N","C">>),
       associatedAcademicCareer |-> Str(<<"U","G">>)],
      [title |-> Str(<<"W","o","r","k"," ","T","e","r","m">>),
       subjectCode |-> Str(<<"C","O","O","P">>),
       catalogNumber |-> Str(<<"1">>),
       gradingBasis |-> Str(<<"C","N","C">>),
       associatedAcademicCareer |-> Str(<<"U","G">>)],
      [title |-> Str(<<"W","o","r","k"," ","R","e","p","o","r","t">>),
       subjectCode |-> Str(<<"W","K","R","P","T">>),
       catalogNumber |-> Str(<<"2","0","0">>),
       gradingBasis |-> Str(<<"N","U","M">>),
       associatedAcademicCareer |-> Str(<<"U","G">>)],
      [title |-> Str(<<"S","e","m","i","n","a","r">>),
       subjectCode |-> Str(<<"E","C","E">>),
       catalogNumber |-> Str(<<"1","0","1">>),
       gradingBasis |-> Str(<<"N","O","N">>),
       associatedAcademicCareer |-> Str(<<"U","G">>)],
      [title |-> Str(<<"S","e","m","i","n","a","r">>),
       subjectCode |-> Str(<<"S","E">>),
       catalogNumber |-> Str(<<"1","0","2">>),
       gradingBasis |-> Str(<<"X","T","R">>),
       associatedAcademicCareer |-> Str(<<"U","G">>)],
      [title |-> Str(<<"F","i","e","l","d"," ","T","r","i","p">>),
       subjectCode |-> Str(<<"A","E">>),
       catalogNumber |-> Str(<<"2","0","0">>),
       gradingBasis |-> Str(<<"N","G","D">>),
       associatedAcademicCareer |-> Str(<<"U","G">>)],
      [title |-> Str(<<"C","a","p","s","t","o","n">>),
       subjectCode |-> Str(<<"p","d">>),
       catalogNumber |-> Str(<<"1","1">>),
       gradingBasis |-> Str(<<"C","N","C">>),
       associatedAcademicCareer |-> Str(<<"g","r","d">>)],
      [subjectCode |-> Str(<<"M","T","E">>), catalogNumber |-> Str(<<"1","0","0">>)] }

FilterCourses(courses) ==
    /\ ret.op = "idle"
    /\ ret' = [courses |-> courses,
               op |-> "filter_courses",
               result |-> filter_courses(courses)]
    /\ UNCHANGED db

GetCoursesForTerm(data) ==
    /\ ret.op = "idle"
    /\ ret' = [data |-> data,
               op |-> "get_courses_for_term",
               result |-> get_courses_for_term(data)]
    /\ UNCHANGED db

FilterCall ==
    \E n \in 0..MaxCourses : \E items \in [1..n -> CourseData] :
        FilterCourses(CoursesFromData(items))
FetchCoursesCall ==
    \/ \E n \in 0..MaxCourses : \E items \in [1..n -> CourseData] :
          GetCoursesForTerm(List(items))
    \/ GetCoursesForTerm([message |-> "error"])

NextFilter == FilterCall \/ FetchCoursesCall \/ Return

SpecFilter == Init /\ [][NextFilter]_vars

\* the letters of needle occur in hay in a row, in any letter case
ContainsIgnoringCase(hay, needle) ==
    \E i \in 0..(Len(hay.s) - Len(needle.s)) :
        \A k \in DOMAIN needle.s : SameLetter(hay.s[i + k], needle.s[k])
\* a course the filter is to leave out
Excluded(course) ==
    \/ course.academic_career = GRD
    \/ ContainsIgnoringCase(course.title, capstone)
    \/ ContainsIgnoringCase(course.title, design_project)
    \/ course.subject \in excluded_subjects
    \/ course.grading_basis \in non_credit
\* the items of xs that are not excluded, in order
RECURSIVE Kept(_)
Kept(xs) ==
    IF xs = <<>> THEN <<>>
    ELSE IF Excluded(Head(xs)) THEN Kept(Tail(xs)) ELSE <<Head(xs)>> \o Kept(Tail(xs))

\* C16: filter_courses returns exactly the input courses, in input order, that
\* are not graduate, capstone or design project (any letter case), of subject
\* PD, WKRPT or COOP, or graded NON, XTR or NGD; every course
\* get_courses_for_term returns is such a course
C16_FilterKeepsExactlyAllowed ==
    /\ ret.op = "filter_courses" => ret.result = Kept(ret.courses)
    /\ ret.op = "get_courses_for_term" =>
          \A i \in DOMAIN ret.result : ~Excluded(ret.result[i])

\* C16 witness: of two courses the design project with capitals in its title is
\* left out and the other returned
C16_Witness ==
    /\ ret.op = "filter_courses"
    /\ Len(ret.courses) = 2
    /\ Len(ret.result) = 1
    /\ \E i \in DOMAIN ret.courses :
          /\ ContainsIgnoringCase(ret.courses[i].title, design_project)
          /\ ~Contains(ret.courses[i].title, design_project)


-----------------------------------------------------------------------------
(* DataFetcher.get_upcoming_term *)

\* bound of the model: the longest list the Terms endpoint returns
MaxTerms == 2

Winter == Str(<<"W","i","n","t","e","r">>)
Spring == Str(<<"S","p","r","i","n","g">>)
Fall == Str(<<"F","a","l","l">>)

\* str.split(): the maximal runs of characters that are not whitespace
RECURSIVE SplitSpace(_, _, _)
SplitSpace(cs, word, acc) ==
    IF cs = <<>>
    THEN (IF word = <<>> THEN acc ELSE Append(acc, Str(word)))
    ELSE IF Head(cs) \in Whitespace
         THEN SplitSpace(Tail(cs), <<>>,
                         IF word = <<>> THEN acc ELSE Append(acc, Str(word)))
         ELSE SplitSpace(Tail(cs), Append(word, Head(cs)), acc)
split(v) == SplitSpace(v.s, <<>>, <<>>)

\* int(s) of a string without whitespace: its decimal value; a string that is
\* empty or has a character that is no digit raises ValueError (the model's
\* characters have no sign and no underscore)
IsDecimal(v) == v.s # <<>> /\ \A i \in DOMAIN v.s : v.s[i] \in Range(Digits)
DigitValue(c) == (CHOOSE i \in DOMAIN Digits : Digits[i] = c) - 1
RECURSIVE ParseDigits(_, _)
ParseDigits(cs, n) ==
    IF cs = <<>> THEN n
    ELSE ParseDigits(Tail(cs), 10 * n + DigitValue(Head(cs)))
int(v) == ParseDigits(v.s, 0)

\* str(n) of an int n >= 0, as the f-string formats next_year
RECURSIVE DigitsOf(_)
DigitsOf(n) ==
    IF n < 10 THEN <<Digits[n + 1]>>
    ELSE Append(DigitsOf(n \div 10), Digits[(n % 10) + 1])
str(n) == Str(DigitsOf(n))

\* lines 183-194 with the season mapping to the same year for Fall as well
next_name_SameYear(name) ==
    LET name_parts == split(name)
    IN IF Len(name_parts) < 2
       THEN [value |-> None, raised |-> TRUE, cause |-> "IndexError"]
       ELSE IF ~IsDecimal(name_parts[2])
       THEN [value |-> None, raised |-> TRUE, cause |-> "ValueError"]
       ELSE LET season == name_parts[1]
                year == int(name_parts[2])
            IN IF season = Winter
               THEN [value |-> Concat(Concat(Spring, Space), str(year)),
                     raised |-> FALSE,
                     cause |-> "none"]
               ELSE IF season = Spring
               THEN [value |-> Concat(Concat(Fall, Space), str(year)),
                     raised |-> FALSE,
                     cause |-> "none"]
               ELSE IF season = Fall
               THEN [value |-> Concat(Concat(Winter, Space), str(year)),
                     raised |-> FALSE,
                     cause |-> "none"]
               ELSE [value |-> None, raised |-> TRUE, cause |-> "UnboundLocalError"]

\* lines 183-194: the name of the term after the term called name.  A name of
\* one word raises IndexError at name_parts[1], a second word that is no number
\* raises ValueError at int(), and a first word that is none of the three
\* seasons leaves next_season unbound, so that the f-string raises
\* UnboundLocalError
next_name(name) ==
    LET name_parts == split(name)
    IN IF Len(name_parts) < 2
       THEN [value |-> None, raised |-> TRUE, cause |-> "IndexError"]
       ELSE IF ~IsDecimal(name_parts[2])
       THEN [value |-> None, raised |-> TRUE, cause |-> "ValueError"]
       ELSE LET season == name_parts[1]
                year == int(name_parts[2])
            IN IF season = Winter
               THEN [value |-> Concat(Concat(Spring, Space), str(year)),
                     raised |-> FALSE,
                     cause |-> "none"]
               ELSE IF season = Spring
               THEN [value |-> Concat(Concat(Fall, Space), str(year)),
                     raised |-> FALSE,
                     cause |-> "none"]
               ELSE IF season = Fall
               THEN [value |-> Concat(Concat(Winter, Space), str(year + 1)),
                     raised |-> FALSE,
                     cause |-> "none"]
               ELSE [value |-> None, raised |-> TRUE, cause |-> "UnboundLocalError"]

\* lines 200-204: the first term of all_terms called next, or the ValueError
\* "Unable to find upcoming term"
RECURSIVE FindTerm(_, _)
FindTerm(all_terms, next) ==
    IF all_terms = <<>>
    THEN [value |-> None, raised |-> TRUE, cause |-> "Unable to find upcoming term"]
    ELSE IF Head(all_terms).name = next
         THEN [value |-> <<Head(all_terms).termCode, Head(all_terms).name>>,
               raised |-> FALSE,
               cause |-> "none"]
         ELSE FindTerm(Tail(all_terms), next)

\* get_upcoming_term: current_term and all_terms are the JSON bodies of the two
\* responses; fault = 1 when the request of the current term fails (timeout or
\* raise_for_status), fault = 2 when the request of the term list fails.  Every
\* exception is logged and raised again.
get_upcoming_term(current_term, all_terms, fault) ==
    IF fault = 1
    THEN [value |-> None, raised |-> TRUE, cause |-> "RequestException"]
    ELSE IF "name" \notin DOMAIN current_term
    THEN [value |-> None, raised |-> TRUE, cause |-> "KeyError"]
    ELSE LET next == next_name(current_term.name)
         IN IF next.raised THEN next
            ELSE IF fault = 2
            THEN [value |-> None, raised |-> TRUE, cause |-> "RequestException"]
            ELSE FindTerm(all_terms, next.value)

Seasons == {Winter, Spring, Fall}
\* the years of the model's terms: a year before a carry into a new digit and two
\* years in a row
Years == {1999, 2025, 2026}
TermName(season, year) == Concat(Concat(season, Space), str(year))
\* the names the Terms endpoints give their terms
TermNames == {TermName(season, year) : season \in Seasons, year \in Years}
\* names of another form
OtherNames ==
    { Str(<<"S","u","m","m","e","r"," ","2","0","2","5">>),
      Str(<<"f","a","l","l"," ","2","0","2","5">>),
      Str(<<"F","a","l","l">>),
      Str(<<"F","a","l","l"," ","T","e","r","m">>),
      Str(<<>>) }
\* bodies of the response of Terms/current
CurrentTerms ==
    {[name |-> n] : n \in TermNames}
    \cup {[name |-> n] : n \in OtherNames}
    \cup {[message |-> Str(<<"e","r","r","o","r">>)]}
\* terms of the response of the Terms endpoint; two terms share the name Winter 2026
TermCode(a, b, c, d) == Str(<<a, b, c, d>>)
TermList ==
    { [name |-> TermName(Spring, 2025), termCode |-> TermCode("1","2","5","5")],
      [name |-> TermName(Fall, 2025), termCode |-> TermCode("1","2","5","9")],
      [name |-> TermName(Winter, 2026), termCode |-> TermCode("1","2","6","1")],
      [name |-> TermName(Winter, 2026), termCode |-> TermCode("9","2","6","1")],
      [name |-> TermName(Winter, 2000), termCode |-> TermCode("1","0","0","1")],
      [name |-> TermName(Spring, 1999), termCode |-> TermCode("0","9","9","5")] }

GetUpcomingTerm(current_term, all_terms, fault) ==
    /\ ret.op = "idle"
    /\ ret' = [fault |-> fault,
               op |-> "get_upcoming_term",
               current_term |-> current_term,
               result |-> get_upcoming_term(current_term, all_terms, fault),
               all_terms |-> all_terms]
    /\ UNCHANGED db

UpcomingTermCall ==
    \E current_term \in CurrentTerms, n \in 0..MaxTerms, fault \in 0..2 :
        \E all_terms \in [1..n -> TermList] :
            GetUpcomingTerm(current_term, all_terms, fault)

NextTerm == UpcomingTermCall \/ Return

SpecTerm == Init /\ [][NextTerm]_vars

IsUpcomingTerm(r) == r.op = "get_upcoming_term"

\* the season and the year of a name of TermNames
SeasonOf(name) == CHOOSE season \in Seasons : \E year \in Years : name = TermName(season, year)
YearOf(name) == CHOOSE year \in Years : \E season \in Seasons : name = TermName(season, year)
\* the term after the term called name: the next season, and the next year after Fall
Upcoming(name) ==
    IF SeasonOf(name) = Winter THEN TermName(Spring, YearOf(name))
    ELSE IF SeasonOf(name) = Spring THEN TermName(Fall, YearOf(name))
    ELSE TermName(Winter, YearOf(name) + 1)

\* C17: for a current term called "<Season> <Year>" and no failed request,
\* get_upcoming_term looks for the name Winter -> Spring of the year, Spring ->
\* Fall of the year, Fall -> Winter of the next year; three steps of that
\* mapping give the same season one year later; the call returns the code and
\* the name of the first term of the list with that name, and raises the
\* "Unable to find upcoming term" error exactly when the list has no such term
C17_UpcomingTerm ==
    (/\ IsUpcomingTerm(ret) /\ ret.fault = 0
     /\ "name" \in DOMAIN ret.current_term
     /\ ret.current_term.name \in TermNames)
    => LET name == ret.current_term.name
           next == next_name(name)
           found == {i \in DOMAIN ret.all_terms : ret.all_terms[i].name = Upcoming(name)}
       IN /\ ~next.raised /\ next.value = Upcoming(name)
          /\ LET second == next_name(next.value)
                 third == next_name(second.value)
             IN /\ ~second.raised /\ ~third.raised
                /\ third.value = TermName(SeasonOf(name), YearOf(name) + 1)
          /\ IF found = {}
             THEN /\ ret.result.raised
                  /\ ret.result.cause = "Unable to find upcoming term"
             ELSE LET first == CHOOSE i \in found : \A j \in found : i <= j
                  IN /\ ~ret.result.raised
                     /\ ret.result.value = <<ret.all_terms[first].termCode,
                                             ret.all_terms[first].name>>
                     /\ ret.result.value[2] = Upcoming(name)

\* C17 witness: the current term is Fall 2025, and the call returned the second
\* term of the list, the first of the two terms called Winter 2026
C17_Witness ==
    /\ IsUpcomingTerm(ret) /\ ret.fault = 0
    /\ "name" \in DOMAIN ret.current_term
    /\ ret.current_term.name = TermName(Fall, 2025)
    /\ Len(ret.all_terms) = 2
    /\ ret.all_terms[1].name # TermName(Winter, 2026)
    /\ ~ret.result.raised
    /\ ret.result.value = <<ret.all_terms[2].termCode, TermName(Winter, 2026)>>


-----------------------------------------------------------------------------
(* RequirementsProcessor: the requirement extraction run *)

\* a row of the courses table, as the processor's SELECT reads it;
\* requirements_description is None (SQL NULL) or a str
ParserRow(subject, number, requirements_description) ==
    [subject |-> Str(subject),
     code |-> Str(subject \o <<" ">> \o number),
     requirements_description |-> requirements_description]

\* SELECT code, requirements_description, subject FROM courses
\* WHERE requirements_description IS NOT NULL AND SUBJECT IN (...) ORDER BY code
RECURSIVE OrderByCode(_)
OrderByCode(rows) ==
    IF rows = {} THEN <<>>
    ELSE LET m == CHOOSE x \in rows : \A y \in rows : ~StrLess(y.code, x.code)
         IN <<m>> \o OrderByCode(rows \ {m})
SelectCourses(courses) ==
    OrderByCode({c \in courses : /\ c.requirements_description # None
                                 /\ c.subject \in AllowedSubjects})

\* what one POST to /api/generate gives: an exception of requests (timeout,
\* connection error, HTTP error status), or the JSON body of the response
Timeout == [raises |-> "Timeout"]
Body(fields) == [json |-> fields]
HasResponse(reply) == "json" \in DOMAIN reply /\ "response" \in DOMAIN reply.json

\* process_single_course: response.json()["response"].strip(), or None when the
\* request, raise_for_status, or the lookup of "response" raises
process_single_course(reply) ==
    IF HasResponse(reply) THEN strip(reply.json.response) ELSE None

\* a str character that is a lone surrogate, as json.loads makes of the escape \ud800
Surrogate == "U+D800"
\* the JSON texts of the model with their values; json.loads raises
\* JSONDecodeError for every other text of the model
JsonTexts ==
    { <<Str(<<"{","}">>), <<>> >>,
      <<Str(<<"n","u","l","l">>), None>>,
      <<Str(<<"\"","\\","u","d","8","0","0","\"">>), Str(<<Surrogate>>)>> }
json_loads(text) ==
    LET t == strip(text)
    IN IF \E p \in JsonTexts : p[1] = t
       THEN [value |-> (CHOOSE p \in JsonTexts : p[1] = t)[2],
             raised |-> FALSE,
             cause |-> "none"]
       ELSE [value |-> None, raised |-> TRUE, cause |-> "JSONDecodeError"]

\* json.dump(output, f, ensure_ascii=False) into a file opened with
\* encoding='utf-8' raises UnicodeEncodeError when a str of output has a lone
\* surrogate; the texts of output before that str are in the file by then
HasSurrogate(v) == IsStr(v) /\ \E i \in DOMAIN v.s : v.s[i] = Surrogate
invalid == Str(<<"i","n","v","a","l","i","d">>)
Truncated == [truncated |-> TRUE]
FileName(course) == Str(course.s \o <<".","j","s","o","n">>)
\* open(file_path, 'w') and the write: the file of that path has the document
WriteFile(files, dir, course, doc) ==
    {f \in files : ~(f.dir = dir /\ f.name = FileName(course))}
        \cup {[name |-> FileName(course), dir |-> dir, doc |-> doc]}

\* the body of the loop over one batch, for one row and the model's reply to it
ProcessRow(acc, row, reply) ==
    LET course == row.code
        requirements_description == row.requirements_description
        result == process_single_course(reply)
    IN IF result # None /\ Truthy(result)
       THEN LET parsed == json_loads(result)
            IN IF ~parsed.raised
               THEN IF HasSurrogate(parsed.value)
                    THEN [acc EXCEPT !.raised = TRUE,
                                     !.cause = "UnicodeEncodeError",
                                     !.files = WriteFile(acc.files, row.subject,
                                                         course, Truncated)]
                    ELSE [acc EXCEPT
                            !.files = WriteFile(acc.files, row.subject, course,
                                 [parsed_requirements |-> parsed.value,
                                  course |-> course,
                                  requirements_description |-> requirements_description]),
                            !.successful_count = @ + 1]
               ELSE [acc EXCEPT
                       !.files = WriteFile(acc.files, invalid, course,
                            [course |-> course,
                             requirements_description |-> requirements_description,
                             raw_response |-> result]),
                       !.invalid_count = @ + 1]
       ELSE [acc EXCEPT !.failed_count = @ + 1]

\* for row in batch, until a statement raises
RECURSIVE ProcessBatch(_, _, _)
ProcessBatch(acc, batch, replies) ==
    IF batch = <<>> \/ acc.raised THEN acc
    ELSE ProcessBatch(ProcessRow(acc, Head(batch), Head(replies)),
                      Tail(batch), Tail(replies))

Min(a, b) == IF a < b THEN a ELSE b

\* for i in range(0, total_courses, batch_size): batch = all_courses[i:i + batch_size]
RECURSIVE ProcessBatches(_, _, _, _, _)
ProcessBatches(acc, i, all_courses, replies, batch_size) ==
    IF i >= Len(all_courses) \/ acc.raised THEN acc
    ELSE LET last == Min(i + batch_size, Len(all_courses))
         IN ProcessBatches(ProcessBatch(acc, SubSeq(all_courses, i + 1, last),
                                        SubSeq(replies, i + 1, last)),
                           i + batch_size, all_courses, replies, batch_size)

\* RequirementsProcessor.process_all_courses on the courses table `courses`, with
\* course_lib empty before the run; replies[k] is what the model call of the
\* k-th selected course gives.  The result has the files of course_lib and the
\* three counters when the run ends, and says whether the run raised.
extract_all_courses(courses, replies, batch_size) ==
    ProcessBatches([raised |-> FALSE, cause |-> "none", files |-> {},
                    successful_count |-> 0, invalid_count |-> 0, failed_count |-> 0],
                   0, SelectCourses(courses), replies, batch_size)

Prereq == Str(<<"P","r","e","r","e","q",":"," ","2","A">>)
ECE106 == ParserRow(<<"E","C","E">>, <<"1","0","6">>, Prereq)
\* the rows of the courses table: three that the SELECT takes, one without a
\* requirements description, one of a subject outside the list
ParserRows ==
    { ParserRow(<<"E","C","E">>, <<"1","0","5">>, Prereq),
      ECE106,
      ParserRow(<<"M","E">>, <<"1","0","1">>, Str(<<>>)),
      ParserRow(<<"S","E">>, <<"1","0","1">>, None),
      ParserRow(<<"P","D">>, <<"1">>, Prereq) }
\* what the model call may give: an exception, a body without "response", and
\* bodies with a response text: JSON, JSON between whitespace, no JSON, empty,
\* whitespace only, a JSON string with a lone surrogate
Replies ==
    { Timeout,
      Body([error |-> Str(<<"n","o"," ","m","o","d","e","l">>)]),
      Body([response |-> Str(<<"{","}">>)]),
      Body([response |-> Str(<<" ","n","u","l","l","\n">>)]),
      Body([response |-> Str(<<"S","u","r","e">>)]),
      Body([response |-> Str(<<>>)]),
      Body([response |-> Str(<<" ","\n">>)]),
      Body([response |-> Str(<<"\"","\\","u","d","8","0","0","\"">>)]) }
BatchSizes == {1, 2, 20}

ExtractAllCourses(courses, replies, batch_size) ==
    /\ ret.op = "idle"
    /\ ret' = [courses |-> courses,
               op |-> "RequirementsProcessor.process_all_courses",
               result |-> extract_all_courses(courses, replies, batch_size),
               replies |-> replies,
               batch_size |-> batch_size]
    /\ UNCHANGED db

ExtractionRun ==
    \E courses \in SUBSET ParserRows, batch_size \in BatchSizes :
        \E replies \in [1..Len(SelectCourses(courses)) -> Replies] :
            ExtractAllCourses(courses, replies, batch_size)

NextExtract == ExtractionRun \/ Return

SpecExtract == Init /\ [][NextExtract]_vars

IsExtraction(r) == r.op = "RequirementsProcessor.process_all_courses"

\* the run has the file dir/<course>.json with a whole document
HasFile(files, dir, course) ==
    \E f \in files : f.dir = dir /\ f.name = FileName(course) /\ f.doc # Truncated

\* C18: in one run every selected course ends in exactly one of: its response
\* parses as JSON and course_lib/<subject>/ has its document; its response is
\* no valid JSON and course_lib/invalid/ has its document; the model call failed
\* and no file was written for it.  The three counters sum to the number of
\* selected courses, and the run does not stop before the last course.
C18_ThreeOutcomes ==
    IsExtraction(ret) =>
        LET all_courses == SelectCourses(ret.courses)
            result == ret.result
        IN /\ ~result.raised
           /\ result.successful_count + result.invalid_count + result.failed_count
                  = Len(all_courses)
           /\ \A k \in DOMAIN all_courses :
                LET row == all_courses[k]
                    reply == ret.replies[k]
                    parses == HasResponse(reply) /\ ~json_loads(reply.json.response).raised
                    in_subject == HasFile(result.files, row.subject, row.code)
                    in_invalid == HasFile(result.files, invalid, row.code)
                IN \/ HasResponse(reply) /\ parses /\ in_subject /\ ~in_invalid
                   \/ HasResponse(reply) /\ ~parses /\ in_invalid /\ ~in_subject
                   \/ ~HasResponse(reply) /\ ~in_subject /\ ~in_invalid


-----------------------------------------------------------------------------
(* Database.process_all_subjects *)

\* bound of the model: the stored trees after a run over course_lib
MaxSubjectTrees == 3

\* an entry of the course_lib directory: a directory with its .json files in
\* listing order, or a plain file
Directory(name, json_files) ==
    [name |-> Str(name), json_files |-> json_files, isdir |-> TRUE]
PlainFile(name) ==
    [name |-> Str(name), json_files |-> <<>>, isdir |-> FALSE]
\* course_lib does not exist
NoCourseLib == {PlainFile(<<>>)}

\* get_available_subjects: the sorted names of the directories of course_lib
\* other than 'invalid'; [] when course_lib does not exist
get_available_subjects(course_lib) ==
    IF course_lib = NoCourseLib THEN <<>>
    ELSE OrderBy({item.name : item \in {x \in course_lib : x.isdir /\ x.name # invalid}})

\* the .json files of course_lib/<subject>
SubjectFiles(course_lib, subject) ==
    (CHOOSE item \in course_lib : item.isdir /\ item.name = subject).json_files

\* the statements of a load after which the model lets the database fail: none,
\* the first, the last, the commit
FaultPoints(n) == {0, 1, n, n + 1}

\* the loop of process_all_subjects with one transaction for the whole run
RECURSIVE ProcessSubjects_OneTransaction(_, _, _, _)
ProcessSubjects_OneTransaction(d, subjects, course_lib, acc) ==
    IF subjects = <<>>
    THEN {[db |-> d, raised |-> FALSE, cause |-> "none",
           committed |-> acc.committed, failed |-> None]}
    ELSE LET subject == Head(subjects)
             requirements == load_subject_requirements(SubjectFiles(course_lib, subject))
         IN IF requirements = <<>>
            THEN ProcessSubjects_OneTransaction(d, Tail(subjects), course_lib, acc)
            ELSE UNION {
                   LET r == process_all_courses(d, requirements, order, fault)
                   IN IF r.raised
                      THEN {[db |-> acc.before, raised |-> TRUE, cause |-> r.cause,
                             committed |-> acc.committed, failed |-> subject]}
                      ELSE ProcessSubjects_OneTransaction(r.db, Tail(subjects), course_lib,
                               [acc EXCEPT !.committed =
                                   Append(@, [db |-> r.db,
                                              subject |-> subject,
                                              requirements |-> requirements])])
                   : order \in Orders(NewKeys(d, requirements)),
                     fault \in FaultPoints(NumStatements(d, requirements)) }

\* the loop of process_all_subjects over the subjects left, on database d: the
\* set of the results the run may have, one for every iteration order of the new
\* keys and every failing statement.  store_course_requirements opens a
\* connection for the subject; process_all_courses commits, or rolls back and
\* raises RuntimeError, which nothing in the loop catches.  acc has the
\* database before the run and, for every subject committed so far, the
\* requirements loaded and the database after its commit.
RECURSIVE ProcessSubjects(_, _, _, _)
ProcessSubjects(d, subjects, course_lib, acc) ==
    IF subjects = <<>>
    THEN {[db |-> d, raised |-> FALSE, cause |-> "none",
           committed |-> acc.committed, failed |-> None]}
    ELSE LET subject == Head(subjects)
             requirements == load_subject_requirements(SubjectFiles(course_lib, subject))
         IN IF requirements = <<>>
            THEN ProcessSubjects(d, Tail(subjects), course_lib, acc)
            ELSE UNION {
                   LET r == process_all_courses(d, requirements, order, fault)
                   IN IF r.raised
                      THEN {[db |-> r.db, raised |-> TRUE, cause |-> r.cause,
                             committed |-> acc.committed, failed |-> subject]}
                      ELSE ProcessSubjects(r.db, Tail(subjects), course_lib,
                               [acc EXCEPT !.committed =
                                   Append(@, [db |-> r.db,
                                              subject |-> subject,
                                              requirements |-> requirements])])
                   : order \in Orders(NewKeys(d, requirements)),
                     fault \in FaultPoints(NumStatements(d, requirements)) }

\* process_all_subjects on database d
process_all_subjects(d, course_lib) ==
    ProcessSubjects(d, get_available_subjects(course_lib), course_lib,
                    [before |-> d, committed |-> <<>>])

\* the entries of course_lib in the model: three subjects with one document
\* each, a subject whose only file has no requirements, the directory of the
\* invalid responses, and a plain file
SubjectDirs ==
    { Directory(<<"A","E">>,
                <<File(AE100.code, Dict(<<<<AE100.code, DocAndLevelProgram>>>>))>>),
      Directory(<<"E","C","E">>,
                <<File(ECE105.code, Dict(<<<<ECE105.code, DocOrProgramMinor>>>>))>>),
      Directory(<<"M","E">>,
                <<File(ME101.code, Dict(<<<<ME101.code, DocNested>>>>))>>) }
OtherEntries ==
    { Directory(<<"B","M","E">>, <<File(CS135.code, None)>>),
      Directory(<<"i","n","v","a","l","i","d">>,
                <<File(CS135.code, Dict(<<<<CS135.code, DocAndLevelProgram>>>>))>>),
      PlainFile(<<"R","E","A","D","M","E">>) }
CourseLibs ==
    {NoCourseLib}
    \cup {dirs \cup others : dirs \in SUBSET SubjectDirs, others \in {{}, OtherEntries}}

ProcessAllSubjects(course_lib) ==
    /\ ret.op = "idle"
    /\ \E r \in process_all_subjects(db, course_lib) :
          /\ Cardinality(Roots(r.db)) <= MaxSubjectTrees
          /\ db' = r.db
          /\ ret' = [before |-> db,
                     raised |-> r.raised,
                     cause |-> r.cause,
                     op |-> "process_all_subjects",
                     course_lib |-> course_lib,
                     committed |-> r.committed,
                     failed |-> r.failed]

SubjectsRun == \E course_lib \in CourseLibs : ProcessAllSubjects(course_lib)

NextSubjects == SubjectsRun \/ Return

SpecSubjects == Init /\ [][NextSubjects]_vars

IsSubjectsRun(r) == r.op = "process_all_subjects"

\* the courses of a load that have a document
Documents(requirements) ==
    {requirements[n][1] : n \in {k \in DOMAIN requirements : requirements[k][2] # None}}

\* C19: after a run of process_all_subjects in which the load of a subject
\* raised, the store is as the commit of the last subject loaded before it left
\* it: every row committed for the subjects loaded earlier in the run is in
\* the store as it was committed, each of their documents has its tree, the
\* failed subject has left no row, and 'invalid' is none of the subjects
C19_EarlierSubjectsRemain ==
    (IsSubjectsRun(ret) /\ ret.raised) =>
        /\ \A k \in DOMAIN ret.committed :
              /\ ret.committed[k].db.req_groups \subseteq db.req_groups
              /\ ret.committed[k].db.individual_reqs \subseteq db.individual_reqs
              /\ ret.committed[k].subject # invalid
              /\ ret.committed[k].subject # ret.failed
              /\ \A course \in Documents(ret.committed[k].requirements) :
                    Cardinality(RootsOf(db, course))
                        = Cardinality(RootsOf(ret.before, course)) + 1
        /\ db = IF ret.committed = <<>> THEN ret.before
                ELSE ret.committed[Len(ret.committed)].db
        /\ ret.failed # invalid

\* C19 witness: the load of the third subject raised after two subjects had
\* been committed, in a course_lib that has the directory 'invalid'
C19_Witness ==
    /\ IsSubjectsRun(ret) /\ ret.raised
    /\ Len(ret.committed) = 2
    /\ \E item \in ret.course_lib : item.name = invalid /\ item.isdir
    /\ Cardinality(Roots(db)) = Cardinality(Roots(ret.before)) + 2
    /\ db # ret.before


-----------------------------------------------------------------------------
(* SubjectFetcher: the subjects table *)

\* bound of the model: the longest list the Subjects endpoint returns
MaxSubjects == 2

\* dict.get(key, ''): the value of the key, '' when the dict has no such key
GetOrEmpty(item, key) == IF key \in DOMAIN item THEN item[key] ELSE Str(<<>>)

\* INSERT OR REPLACE INTO subjects (code, name): the row of that code, if any,
\* gives way to the new row
InsertOrReplace(rows, code, name) ==
    {r \in rows : r.code # code} \cup {[name |-> name, code |-> code]}

\* executemany over subject_batch, in list order
RECURSIVE ExecuteMany(_, _)
ExecuteMany(rows, subject_batch) ==
    IF subject_batch = <<>> THEN rows
    ELSE ExecuteMany(InsertOrReplace(rows, Head(subject_batch)[1], Head(subject_batch)[2]),
                     Tail(subject_batch))

\* insert_subjects on the subjects table `rows`: a name that is None breaks NOT
\* NULL, executemany raises sqlite3.IntegrityError, which is logged; the
\* connection is closed without a commit and the table is as before
insert_subjects(rows, subjects) ==
    LET subject_batch == [n \in DOMAIN subjects |->
                             <<GetOrEmpty(subjects[n], "code"),
                               GetOrEmpty(subjects[n], "description")>>]
    IN IF \E n \in DOMAIN subject_batch : subject_batch[n][2] = None
       THEN rows
       ELSE ExecuteMany(rows, subject_batch)

\* get_subjects: the JSON body when it is a list; [] for another body and when
\* the request or raise_for_status raises
get_subjects(reply) ==
    IF "json" \in DOMAIN reply /\ IsList(reply.json) THEN reply.json.items ELSE <<>>

\* fetch_and_store_subjects on the subjects table `rows`: the table afterwards
fetch_and_store_subjects(rows, reply) ==
    LET subjects == get_subjects(reply)
    IN IF subjects # <<>> THEN insert_subjects(rows, subjects) ELSE rows

NameA == Str(<<"A","r","c","h">>)
NameB == Str(<<"B","u","i","l","d">>)
\* the items of the response in the model: two subjects, the first of them
\* under a second name, an item with a null description, an item without code
SubjectItems ==
    { [code |-> Str(<<"A","E">>), description |-> NameA],
      [code |-> Str(<<"A","E">>), description |-> NameB],
      [code |-> Str(<<"E","C","E">>), description |-> NameA],
      [code |-> Str(<<"M","E">>), description |-> None],
      [description |-> NameB] }

\* Database() creates the table only if it does not exist, so that the rows of
\* earlier runs are there when the run starts
InitFetch ==
    /\ db = [subjects |-> {}]
    /\ ret = [op |-> "idle"]

FetchAndStoreSubjects(reply) ==
    /\ ret.op = "idle"
    /\ db' = [subjects |-> fetch_and_store_subjects(db.subjects, reply)]
    /\ ret' = [before |-> db.subjects,
               op |-> "fetch_and_store_subjects",
               reply |-> reply]

FetchRun ==
    \/ \E n \in 0..MaxSubjects : \E items \in [1..n -> SubjectItems] :
          FetchAndStoreSubjects(Body(List(items)))
    \/ FetchAndStoreSubjects(Body([message |-> NameA]))
    \/ FetchAndStoreSubjects(Timeout)

NextFetch == FetchRun \/ Return

SpecFetch == InitFetch /\ [][NextFetch]_vars

IsFetch(r) == r.op = "fetch_and_store_subjects"
\* the response is a list of subjects, each with a code and a description
SubjectList(reply) ==
    /\ "json" \in DOMAIN reply /\ IsList(reply.json)
    /\ \A n \in DOMAIN reply.json.items :
          /\ "code" \in DOMAIN reply.json.items[n]
          /\ "description" \in DOMAIN reply.json.items[n]
          /\ reply.json.items[n].description # None

\* C20: after a fetch run that received a list of subjects, the codes of the
\* subjects table are exactly the codes of that list
C20_TableIsResponse ==
    (IsFetch(ret) /\ SubjectList(ret.reply)) =>
        {r.code : r \in db.subjects}
            = {ret.reply.json.items[n].code : n \in DOMAIN ret.reply.json.items}


-----------------------------------------------------------------------------
(* CourseFetcher: the run that stores the term and the courses *)

\* bound of the model: the longest list the Courses endpoint returns to a run
MaxFetched == 2

\* Database(): the terms table is created if it does not exist, the courses
\* table is dropped and created empty
create_tables(d) == [d EXCEPT !.courses = {}]

\* insert_term: INSERT OR REPLACE INTO terms (id, name) VALUES (int(id), name)
insert_term(d, id, name) ==
    [d EXCEPT !.terms = {t \in @ : t.id # int(id)} \cup {[name |-> name, id |-> int(id)]}]

\* x if x else None
OrNone(x) == IF x # None /\ Truthy(x) THEN x ELSE None

\* the tuple insert_course_batch makes of a course
CourseTuple(course) ==
    [subject |-> course.subject,
     code |-> course.code,
     requirements_description |-> OrNone(course.requirements_description),
     title |-> course.title,
     description |-> OrNone(course.description),
     catalog_number |-> course.catalog_number,
     component |-> course.component,
     grading_basis |-> course.grading_basis,
     is_pass_fail |-> course.is_pass_fail]

\* a row the courses table refuses: NOT NULL of subject, catalog_number, title,
\* component, grading_basis; PRIMARY KEY code; UNIQUE(subject, catalog_number)
BreaksConstraint(rows, row) ==
    \/ None \in {row.subject, row.catalog_number, row.title, row.component,
                 row.grading_basis}
    \/ \E r \in rows : r.code = row.code
    \/ \E r \in rows : r.subject = row.subject /\ r.catalog_number = row.catalog_number

\* executemany of the INSERT over course_batch: the rows afterwards, and
\* whether a row raised sqlite3.IntegrityError
RECURSIVE InsertMany(_, _)
InsertMany(rows, course_batch) ==
    IF course_batch = <<>> THEN [rows |-> rows, raised |-> FALSE]
    ELSE IF BreaksConstraint(rows, Head(course_batch))
         THEN [rows |-> rows, raised |-> TRUE]
         ELSE InsertMany(rows \cup {Head(course_batch)}, Tail(course_batch))

\* insert_course_batch: the rows are committed when every INSERT went through;
\* a sqlite3.Error is logged, and the connection is closed without a commit
insert_course_batch(d, courses) ==
    LET course_batch == [n \in DOMAIN courses |-> CourseTuple(courses[n])]
        done == InsertMany(d.courses, course_batch)
    IN IF done.raised THEN d ELSE [d EXCEPT !.courses = done.rows]

\* main on database d: current_term and all_terms are the bodies of the two
\* Terms responses and term_fault says which of the two requests fails (0: none);
\* data is the body of the Courses response, and courses_fault says that
\* this request fails.  Every exception ends the run.
CourseFetcher_main(d, current_term, all_terms, term_fault, data, courses_fault) ==
    LET created == create_tables(d)
        term == get_upcoming_term(current_term, all_terms, term_fault)
    IN IF term.raised THEN created
       ELSE IF ~IsDecimal(term.value[1]) THEN created     \* int(id): ValueError
       ELSE LET stored == insert_term(created, term.value[1], term.value[2])
            IN IF courses_fault THEN stored
               ELSE LET courses == get_courses_for_term(data)
                    IN IF courses # <<>> THEN insert_course_batch(stored, courses)
                       ELSE stored

LEC == Str(<<"L","E","C">>)
NUM == Str(<<"N","U","M">>)
UG == Str(<<"U","G">>)
\* the items of the Courses response in the model: a course, the same course
\* under another title, a course with an empty description, a course the filter
\* leaves out, a course whose component is null
FetchedItems ==
    { [title |-> Str(<<"C","i","r","c","u","i","t","s">>),
       description |-> Str(<<"c","i","r","c","u","i","t"," ","a","n","a","l","y","s","i","s">>),
       subjectCode |-> Str(<<"E","C","E">>),
       catalogNumber |-> Str(<<"1","0","5">>),
       courseComponentCode |-> LEC,
       gradingBasis |-> NUM,
       associatedAcademicCareer |-> UG],
      [title |-> Str(<<"C","i","r","c","u","i","t","s"," ","1">>),
       description |-> Str(<<"c","i","r","c","u","i","t"," ","a","n","a","l","y","s","i","s">>),
       subjectCode |-> Str(<<"E","C","E">>),
       catalogNumber |-> Str(<<"1","0","5">>),
       courseComponentCode |-> LEC,
       gradingBasis |-> NUM,
       associatedAcademicCareer |-> UG],
      [title |-> Str(<<"M","a","c","h","i","n","e"," ","D","e","s","i","g","n">>),
       description |-> Str(<<>>),
       subjectCode |-> Str(<<"M","E">>),
       catalogNumber |-> Str(<<"1","0","1">>),
       courseComponentCode |-> LEC,
       gradingBasis |-> NUM,
       associatedAcademicCareer |-> UG],
      [title |-> Str(<<"C","a","r","e","e","r"," ","S","k","i","l","l","s">>),
       description |-> Str(<<>>),
       subjectCode |-> Str(<<"P","D">>),
       catalogNumber |-> Str(<<"1","0">>),
       courseComponentCode |-> LEC,
       gradingBasis |-> NUM,
       associatedAcademicCareer |-> UG],
      [title |-> Str(<<"R","o","b","o","t","i","c","s">>),
       description |-> Str(<<"c","o","n","t","r","o","l"," ","d","e","s","i","g","n">>),
       subjectCode |-> Str(<<"S","E">>),
       catalogNumber |-> Str(<<"1","0","1">>),
       courseComponentCode |-> None,
       gradingBasis |-> NUM,
       associatedAcademicCareer |-> UG] }
\* the Terms responses of the model
FetcherCurrentTerms == {[name |-> TermName(Fall, 2025)], [name |-> TermName(Spring, 2025)]}
FetcherTermLists ==
    { <<[name |-> TermName(Fall, 2025), termCode |-> TermCode("1","2","5","9")],
        [name |-> TermName(Winter, 2026), termCode |-> TermCode("1","2","6","1")]>>,
      <<[name |-> TermName(Spring, 2025), termCode |-> TermCode("1","2","5","5")]>> }

InitFetcher ==
    /\ db = [courses |-> {}, terms |-> {}]
    /\ ret = [op |-> "idle"]

RunCourseFetcher(current_term, all_terms, term_fault, data, courses_fault) ==
    /\ ret.op = "idle"
    /\ db' = CourseFetcher_main(db, current_term, all_terms, term_fault, data, courses_fault)
    /\ ret' = [data |-> data,
               before |-> db,
               op |-> "CourseFetcher.main",
               term |-> get_upcoming_term(current_term, all_terms, term_fault),
               courses_fault |-> courses_fault]

FetcherRun ==
    \E current_term \in FetcherCurrentTerms, all_terms \in FetcherTermLists,
       term_fault \in {0, 1}, courses_fault \in BOOLEAN :
        \/ \E n \in 0..MaxFetched : \E items \in [1..n -> FetchedItems] :
              RunCourseFetcher(current_term, all_terms, term_fault, List(items),
                               courses_fault)
        \/ RunCourseFetcher(current_term, all_terms, term_fault,
                            [message |-> NameA], courses_fault)

NextFetcher == FetcherRun \/ Return

SpecFetcher == InitFetcher /\ [][NextFetcher]_vars

IsFetcherRun(r) == r.op = "CourseFetcher.main"

\* C21: after a run in which the term was resolved and the Courses request
\* gave its list, the courses table has exactly the courses that passed the
\* filter in this run, code and (subject, catalog_number) are unique in it, and
\* the terms table has the row of the resolved term
C21_CoursesTableIsRun ==
    (IsFetcherRun(ret) /\ ~ret.term.raised /\ ~ret.courses_fault /\ IsList(ret.data)) =>
        LET filtered == get_courses_for_term(ret.data)
        IN /\ {r.code : r \in db.courses} = {filtered[n].code : n \in DOMAIN filtered}
           /\ \A r, q \in db.courses :
                 (r.code = q.code
                  \/ (r.subject = q.subject /\ r.catalog_number = q.catalog_number))
                 => r = q
           /\ \E t \in db.terms : t.id = int(ret.term.value[1]) /\ t.name = ret.term.value[2]


-----------------------------------------------------------------------------
(* Properties of the evaluation of one group *)

\* number of trees in a store loaded for the evaluation of its groups
MaxGroupTrees == 2

DocAndOverGroup ==
    Group("AND", <<Group("AND", <<Leaf("PROGRAM", "=", MechanicalEngineering),
                                  Leaf("MINOR", "=", Music)>>),
                   Leaf("LEVEL", ">=", L3A)>>)

\* the documents loaded: groups over leaves, over groups, and without children
GroupBatches ==
    { <<<<course.code, doc>>>> :
          course \in {AE100, ECE105},
          doc \in {DocAndLevelProgram, DocOrProgramMinor, DocNested, DocEmpty,
                   DocAndOverGroup} }

LoadGroups ==
    /\ ret.op = "idle"
    /\ \E ai_output \in GroupBatches :
          \E order \in Orders(NewKeys(db, ai_output)) :
             /\ Cardinality(Roots(db)) + NumDocuments(ai_output) <= MaxGroupTrees
             /\ StoreCourseRequirements(ai_output, order, 0)

NextGroups == LoadGroups \/ Return
SpecGroups == Init /\ [][NextGroups]_vars

\* the profiles the groups of the store are evaluated for
EvalProfiles ==
    {<<program, level, minor>> : program \in {CivilEngineering, MechanicalEngineering},
                                 level \in {L2A, L3A, L4B}, minor \in {None, Music}}

\* the children of every group below g (g included) have positions of their own
RECURSIVE WellPositioned(_, _)
WellPositioned(d, g) ==
    /\ \A c, q \in ChildrenOf(d, g) : c.position = q.position => c = q
    /\ \A c \in ChildrenOf(d, g) : WellPositioned(d, c)

\* the rule for a node: a leaf by its condition; a group without children
\* passes; a group whose first child is a leaf passes when one child passes;
\* another group by its stored type
RECURSIVE RulePasses(_, _, _)
RulePasses(d, g, profile) ==
    IF g.type = "CONDITION"
    THEN _evaluate_condition(d, g.individual_id, profile[1], profile[2], profile[3])
    ELSE LET children == ChildrenOf(d, g)
         IN IF children = {} THEN TRUE
            ELSE LET first == CHOOSE c \in children :
                                 \A q \in children : c.position <= q.position
                 IN IF first.type = "CONDITION"
                    THEN \E c \in children : RulePasses(d, c, profile)
                    ELSE IF g.type = "AND"
                    THEN \A c \in children : RulePasses(d, c, profile)
                    ELSE \E c \in children : RulePasses(d, c, profile)

\* C22: a group without children passes; a group whose first child by position
\* is a CONDITION row passes exactly when one of its children passes, whatever
\* its stored type; another group passes by its stored type, AND over all
\* children and OR over any, the children evaluated by the same rule
C22_GroupEvaluation ==
    \A g \in db.req_groups :
        (g.type # "CONDITION" /\ WellPositioned(db, g)) =>
            \A profile \in EvalProfiles :
                _evaluate_requirement_group(db, g, profile[1], profile[2], profile[3])
                    = {RulePasses(db, g, profile)}

\* C22 witness: the store has an AND group whose first child is a leaf and
\* which passes for a profile that fails one of its children, a group whose
\* first child is a group and which is evaluated by its stored type, and a
\* group without children
C22_Witness ==
    /\ \E g \in db.req_groups, profile \in EvalProfiles :
          /\ g.type = "AND" /\ WellPositioned(db, g)
          /\ \E c \in ChildrenOf(db, g) :
                /\ c.type = "CONDITION"
                /\ \A q \in ChildrenOf(db, g) : c.position <= q.position
          /\ \E c \in ChildrenOf(db, g) : ~RulePasses(db, c, profile)
          /\ _evaluate_requirement_group(db, g, profile[1], profile[2], profile[3]) = {TRUE}
    /\ \E g \in db.req_groups, profile \in EvalProfiles :
          /\ g.type = "AND" /\ WellPositioned(db, g)
          /\ \E c \in ChildrenOf(db, g) :
                /\ c.type = "AND"
                /\ \A q \in ChildrenOf(db, g) : c.position <= q.position
                /\ RulePasses(db, c, profile)
          /\ _evaluate_requirement_group(db, g, profile[1], profile[2], profile[3]) = {FALSE}
    /\ \E g \in db.req_groups : g.type # "CONDITION" /\ ChildrenOf(db, g) = {}


-----------------------------------------------------------------------------
(* The bulk load statement by statement: process_all_courses opens the
   transaction, issues the statements of Statements one at a time, and commits;
   an exception at any point rolls the transaction back *)

\* number of trees in a store loaded statement by statement
MaxBulkTrees == 2

\* process_all_courses up to the first statement: the cache loaded and the
\* operations of every course collected
BeginLoad(ai_output, order) ==
    /\ ret.op = "idle"
    /\ ai_output # <<>>
    /\ Cardinality(Roots(db)) + NumDocuments(ai_output) <= MaxBulkTrees
    /\ LET cache == LoadCache(db)
           collected == CollectAll(ai_output, Len(ai_output), cache)
       IN ret' = [ai_output |-> ai_output,
                  tx |-> [db |-> db, cache |-> cache, temp_to_real_id |-> <<>>],
                  sts |-> Statements(collected, order),
                  done |-> 0,
                  op |-> "process_all_courses"]
    /\ UNCHANGED db

BeginBulk ==
    \E ai_output \in Batches :
        \E order \in Orders(NewKeys(db, ai_output)) : BeginLoad(ai_output, order)

\* the next statement of the two bulk inserts
ExecuteNext ==
    /\ ret.op = "process_all_courses"
    /\ ret.done < Len(ret.sts)
    /\ ret' = [ret EXCEPT !.done = @ + 1, !.tx = Execute(@, ret.sts[ret.done + 1])]
    /\ UNCHANGED db

\* self.conn.commit()
Commit ==
    /\ ret.op = "process_all_courses"
    /\ ret.done = Len(ret.sts)
    /\ db' = ret.tx.db
    /\ ret' = [op |-> "idle"]

\* a statement or the commit raises: self.conn.rollback() and the RuntimeError
Abort ==
    /\ ret.op = "process_all_courses"
    /\ db' = Rollback(db, ret.tx.db)
    /\ ret' = [op |-> "idle"]

NextBulk == BeginBulk \/ ExecuteNext \/ Commit \/ Abort
SpecBulk == Init /\ [][NextBulk]_vars

\* a statement of the load has just run, and it inserts a row whose document
\* node has a parent
InsertedWithParent ==
    /\ ret.op = "process_all_courses"
    /\ ret.done >= 1
    /\ ret.sts[ret.done].kind \in {"insert_group", "insert_leaf"}
    /\ ret.sts[ret.done].row.parent_id # NULL

\* C23: during a bulk load, a row whose document node has a parent is inserted
\* after the row of that parent, and is stored with the id of a group row that
\* is already in the table as its parent_id, never with a null parent_id
C23_ParentsFirst ==
    InsertedWithParent =>
        LET st == ret.sts[ret.done]
            rows == ret.tx.db.req_groups
        IN /\ \E m \in 1..(ret.done - 1) :
                 /\ ret.sts[m].kind = "insert_group"
                 /\ ret.sts[m].row.course = st.row.course
                 /\ ret.sts[m].row.temp_id = st.row.parent_id
           /\ \E r \in rows :
                 /\ r.id = ret.tx.db.sqlite_sequence.req_groups
                 /\ r.course = st.row.course /\ r.position = st.row.position
                 /\ (r.type = "CONDITION") = (st.kind = "insert_leaf")
                 /\ r.parent_id # NULL
                 /\ \E p \in rows :
                       p.id = r.parent_id /\ p.id < r.id /\ p.type # "CONDITION"

\* C23 witness: the row of a group nested in another group has just been
\* inserted, in a load of two courses, and leaf rows follow
C23_Witness ==
    /\ InsertedWithParent
    /\ ret.sts[ret.done].kind = "insert_group"
    /\ Len(ret.ai_output) >= 2
    /\ ret.done < Len(ret.sts)
    /\ \E r \in ret.tx.db.req_groups :
          r.id = ret.tx.db.sqlite_sequence.req_groups /\ r.parent_id # NULL


-----------------------------------------------------------------------------
(* Properties of the rows of a batch of several courses *)

\* the load that has just returned committed a batch of two or more documents
IsBatchOfSeveral ==
    IsStoreCall(ret) /\ ~ret.raised /\ NumDocuments(ret.ai_output) >= 2

\* C24: after a bulk load of a batch of two or more courses, every row with a
\* parent_id points to a group row of its own course
C24_ChildrenInOwnTree ==
    IsBatchOfSeveral =>
        \A r \in db.req_groups :
            r.parent_id # NULL =>
                \E p \in db.req_groups :
                    p.id = r.parent_id /\ p.type # "CONDITION" /\ p.course = r.course


-----------------------------------------------------------------------------
(* RequirementsTreeTraveller.get_course_requirements *)

\* the lists _get_child_groups may return: the children ORDER BY position, rows
\* of equal position in any order
ChildOrders(children) ==
    {f \in [1..Cardinality(children) -> children] :
        /\ \A i, j \in DOMAIN f : f[i] = f[j] => i = j
        /\ \A i, j \in DOMAIN f : i < j => f[i].position <= f[j].position}

\* _build_requirements_tree: the set of values the call may return.
\* ConditionLists is its loop over the first n children: the lists `conditions`
\* may be, a child whose tree is None left out
RECURSIVE _build_requirements_tree(_, _)
RECURSIVE ConditionLists(_, _, _)
_build_requirements_tree(d, group) ==
    IF group.type = "CONDITION"
    THEN LET found == _get_individual_requirement(d, group.individual_id)
         IN IF found = {} THEN {None}
            ELSE {Leaf(req.type, req.operator, req.value) : req \in found}
    ELSE LET children == _get_child_groups(d, group.id)
             operator == IF group.type \in {"AND", "OR"} THEN "OR" ELSE group.type
         IN IF children = {} THEN {None}
            ELSE {IF conditions = <<>> THEN None ELSE Group(operator, conditions) :
                     conditions \in UNION {ConditionLists(d, order, Len(order)) :
                                              order \in ChildOrders(children)}}
ConditionLists(d, order, n) ==
    IF n = 0 THEN {<<>>}
    ELSE {IF child_tree = None THEN conditions ELSE Append(conditions, child_tree) :
             conditions \in ConditionLists(d, order, n - 1),
             child_tree \in _build_requirements_tree(d, order[n])}

\* get_course_requirements: the set of values the call may return
get_course_requirements(d, course) ==
    LET roots == _get_root_requirement_group(d, course)
    IN IF roots = {} THEN {None}
       ELSE UNION {_build_requirements_tree(d, root) : root \in roots}

-----------------------------------------------------------------------------
(* Properties of get_course_requirements *)

\* the document of the tree below row g with, for every group, the combinator
\* the evaluation applies to it: OR when its first child is a leaf, its stored
\* type otherwise
RECURSIVE AppliedDocument(_, _)
AppliedDocument(d, g) ==
    IF g.type = "CONDITION"
    THEN LET req == CHOOSE r \in d.individual_reqs : r.id = g.individual_id
         IN Leaf(req.type, req.operator, req.value)
    ELSE LET children == ChildrenOf(d, g)
             order == CHOOSE f \in ChildOrders(children) : TRUE
         IN Group(IF children # {} /\ order[1].type = "CONDITION" THEN "OR" ELSE g.type,
                  [i \in DOMAIN order |-> AppliedDocument(d, order[i])])

\* C25: get_course_requirements returns None exactly for a course without a
\* stored tree, and otherwise the document of the stored tree in which every
\* group has the combinator the evaluation applies to it
C25_ReportsAppliedCombinators ==
    \A c \in db.courses :
        LET roots == Roots(db) \cap {g \in db.req_groups : g.course = c.code}
        IN /\ (None \in get_course_requirements(db, c.code)) <=> (roots = {})
           /\ \A root \in roots :
                 (roots = {root} /\ WellPositioned(db, root)) =>
                     get_course_requirements(db, c.code) = {AppliedDocument(db, root)}


-----------------------------------------------------------------------------
(* Properties of a program name typed in another letter case *)

\* program is the name of an engineering program up to letter case, and is not
\* the name itself
CaseDiffers(program) ==
    /\ IsStr(program)
    /\ \E i \in DOMAIN valid_programs : lower(program) = lower(valid_programs[i])
    /\ program \notin Range(valid_programs)

\* get_available_courses has been asked about such a program, with a term and a
\* minor that are valid
IsCaseDifferingQuery ==
    /\ IsQuery
    /\ CaseDiffers(ret.program)
    /\ \E i \in DOMAIN valid_programs :
          _validate_inputs(valid_programs[i], ret.term, ret.minor)

\* the stored PROGRAM leaves with the given operator
ProgramLeaves(operator) ==
    {r \in db.individual_reqs : r.type = "PROGRAM" /\ r.operator = operator}

\* C26 as stated: for a program that is a valid name up to letter case but not
\* exactly, the inputs pass validation and every PROGRAM leaf, = or !=,
\* evaluates as not satisfied
C26_EveryProgramLeafFails ==
    IsCaseDifferingQuery =>
        /\ _validate_inputs(ret.program, ret.term, ret.minor)
        /\ \A r \in ProgramLeaves("=") \cup ProgramLeaves("!=") :
              ~_evaluate_condition(db, r.id, ret.program, ret.term, ret.minor)

\* C26 amended: for such a program the inputs pass validation, every
\* PROGRAM = leaf on a valid program name evaluates as not satisfied, and every
\* PROGRAM != leaf on a valid program name evaluates as satisfied
C26_EqualsFailsNotEqualsPasses ==
    IsCaseDifferingQuery =>
        /\ _validate_inputs(ret.program, ret.term, ret.minor)
        /\ \A r \in ProgramLeaves("=") :
              r.value \in Range(valid_programs) =>
                  ~_evaluate_condition(db, r.id, ret.program, ret.term, ret.minor)
        /\ \A r \in ProgramLeaves("!=") :
              r.value \in Range(valid_programs) =>
                  _evaluate_condition(db, r.id, ret.program, ret.term, ret.minor)

\* C26 witness: a query about a program in another letter case, on a store with
\* a PROGRAM = leaf and a PROGRAM != leaf on the program's name
C26_Witness ==
    /\ IsCaseDifferingQuery
    /\ \E r \in ProgramLeaves("=") : lower(r.value) = lower(ret.program)
    /\ \E r \in ProgramLeaves("!=") : lower(r.value) = lower(ret.program)


-----------------------------------------------------------------------------
(* CourseIndexer run on the courses table the course fetcher fills *)

\* number of items of the Courses response the table is filled from
MaxIndexed == 3

\* an item of the Courses response
IndexItem(subject, number, title, description) ==
    [title |-> title, description |-> description, subjectCode |-> subject,
     catalogNumber |-> number, courseComponentCode |-> LEC, gradingBasis |-> NUM,
     associatedAcademicCareer |-> UG]

\* the items of the model: courses of the indexer's subjects with a
\* description, one with an empty description, and a course of another subject
IndexItems ==
    { IndexItem(Str(<<"A","E">>), Str(<<"1","0","0">>),
                Str(<<"D","e","s","i","g","n"," ","S","t","u","d","i","o">>),
                Str(<<"d","e","s","i","g","n","/","a","n","a","l","y","s","i","s">>)),
      IndexItem(Str(<<"E","C","E">>), Str(<<"1","0","5">>),
                Str(<<"C","i","r","c","u","i","t","s">>),
                Str(<<"c","i","r","c","u","i","t"," ","a","n","a","l","y","s","i","s">>)),
      IndexItem(Str(<<"S","E">>), Str(<<"1","0","1">>),
                Str(<<"R","o","b","o","t","i","c","s">>),
                Str(<<"c","o","n","t","r","o","l"," ","d","e","s","i","g","n">>)),
      IndexItem(Str(<<"N","E">>), Str(<<"1","0","0">>),
                Str(<<"C","o","n","t","r","o","l">>),
                Str(<<"d","e","s","i","g","n"," ","D","e","s","i","g","n">>)),
      IndexItem(Str(<<"M","E">>), Str(<<"1","0","1">>),
                Str(<<"M","a","c","h","i","n","e"," ","D","e","s","i","g","n">>),
                Str(<<>>)),
      IndexItem(Str(<<"C","S">>), Str(<<"1","3","5">>),
                Str(<<"D","e","s","i","g","n">>),
                Str(<<"m","a","c","h","i","n","e","s">>)) }

\* fetch_courses_from_db: the lists fetchall() may return, the SELECT having no
\* ORDER BY
fetch_courses_from_db(d) ==
    Orders({[code |-> r.code, title |-> r.title, description |-> r.description] :
               r \in {x \in d.courses : x.subject \in AllowedSubjects}})

\* CourseIndexer.build with its exception: title + ' ' + description raises
\* TypeError for a description that is None, before save() has written a file
CourseIndexer_build(courses) ==
    IF \E i \in DOMAIN courses : courses[i].description = None
    THEN [value |-> None, raised |-> TRUE, cause |-> "TypeError"]
    ELSE [value |-> build(courses), raised |-> FALSE, cause |-> "none"]

\* the table as a run of the course fetcher leaves it
InitIndex ==
    /\ \E n \in 0..MaxIndexed : \E items \in [1..n -> IndexItems] :
          /\ \A i, j \in 1..n : items[i] = items[j] => i = j
          /\ db = insert_course_batch([courses |-> {}, terms |-> {}],
                                      get_courses_for_term(List(items)))
    /\ ret = [op |-> "idle"]

\* the indexer program: fetch_courses_from_db, then build
RunIndexer(courses) ==
    /\ ret.op = "idle"
    /\ LET built == CourseIndexer_build(courses)
       IN ret' = [courses |-> courses,
                  raised |-> built.raised,
                  op |-> "CourseIndexer.main",
                  index |-> built.value]
    /\ UNCHANGED db

IndexerRun == \E courses \in fetch_courses_from_db(db) : RunIndexer(courses)

NextIndex == IndexerRun \/ Return
SpecIndex == InitIndex /\ [][NextIndex]_vars

-----------------------------------------------------------------------------
(* Properties of the index build *)

IsIndexerRun == ret.op = "CourseIndexer.main"

\* the tokens of the courses of the run, in the order the build meets them
TokenStream ==
    Flatten([i \in DOMAIN ret.courses |->
                tokenize(Concat(Concat(ret.courses[i].title, Space),
                                ret.courses[i].description))])

\* the first place of token t in the stream
FirstPosition(stream, t) ==
    CHOOSE i \in DOMAIN stream : stream[i] = t /\ \A j \in 1..(i - 1) : stream[j] # t

\* the sum of the term frequencies recorded for the course in the posting lists
\* of the first n token ids
RECURSIVE SumTf(_, _, _)
SumTf(idx, course_code, n) ==
    IF n = 0 THEN 0
    ELSE LET postings == idx.inverted_index[n]
             own == {k \in DOMAIN postings : postings[k].course_code = course_code}
         IN SumTf(idx, course_code, n - 1)
            + (IF own = {} THEN 0 ELSE postings[CHOOSE k \in own : TRUE].tf)

\* C27: after an index build, the lexicon maps the n distinct tokens one-to-one
\* onto 1..n in the order of their first appearance, and the term frequencies
\* recorded for a course sum to its recorded document length
C27_LexiconAndLengths ==
    (IsIndexerRun /\ ~ret.raised) =>
        LET idx == ret.index
            stream == TokenStream
            n == Cardinality(Range(stream))
            first == [t \in Range(stream) |-> FirstPosition(stream, t)]
        IN /\ DOMAIN idx.lexicon = Range(stream)
           /\ {idx.lexicon[t] : t \in DOMAIN idx.lexicon} = 1..n
           /\ \A t, u \in DOMAIN idx.lexicon :
                 (first[t] < first[u]) => idx.lexicon[t] < idx.lexicon[u]
           /\ DOMAIN idx.inverted_index = 1..n
           /\ {idx.doc_lengths[i].course_code : i \in DOMAIN idx.doc_lengths}
                 = {ret.courses[i].code : i \in DOMAIN ret.courses}
           /\ \A i \in DOMAIN idx.doc_lengths :
                 SumTf(idx, idx.doc_lengths[i].course_code, n) = idx.doc_lengths[i].length

\* C27 witness: a build over three courses in which a token occurs twice in a
\* course and a token occurs in two courses
C27_Witness ==
    /\ IsIndexerRun /\ ~ret.raised
    /\ Len(ret.courses) = 3
    /\ \E id \in DOMAIN ret.index.inverted_index :
          \E k \in DOMAIN ret.index.inverted_index[id] :
              ret.index.inverted_index[id][k].tf >= 2
    /\ \E id \in DOMAIN ret.index.inverted_index :
          Len(ret.index.inverted_index[id]) >= 2


\* C30: the index build completes, and records a document length and a
\* metadata entry for every course of the indexer's subjects in the table, a
\* course whose description is NULL among them
C30_BuildCompletes ==
    IsIndexerRun =>
        /\ ~ret.raised
        /\ \A r \in db.courses :
              r.subject \in AllowedSubjects =>
                  /\ \E i \in DOMAIN ret.index.doc_lengths :
                        ret.index.doc_lengths[i].course_code = r.code
                  /\ \E i \in DOMAIN ret.index.courses :
                        ret.index.courses[i].code = r.code


-----------------------------------------------------------------------------
(* Properties of the evaluation of a loaded batch *)

\* the evaluator's rule for a leaf, applied to the leaf of a document
LeafPasses(leaf, profile) ==
    IF leaf.type = "PROGRAM"
    THEN (IF leaf.operator = "=" THEN profile[1] = leaf.value
          ELSE IF leaf.operator = "!=" THEN profile[1] # leaf.value
          ELSE FALSE)
    ELSE IF leaf.type = "LEVEL"
    THEN (IF leaf.operator = "=" THEN profile[2] = leaf.value
          ELSE IF leaf.operator = ">="
          THEN level_to_term[profile[2]] >= level_to_term[leaf.value]
          ELSE FALSE)
    ELSE IF leaf.type = "MINOR"
    THEN (IF leaf.operator = "=" THEN profile[3] = leaf.value ELSE FALSE)
    ELSE FALSE

\* the evaluator's rules applied to a document: a group without conditions
\* passes, a group whose first condition is a leaf passes when one condition
\* passes, another group by its operator
RECURSIVE DocPasses(_, _)
DocPasses(doc, profile) ==
    IF "conditions" \notin DOMAIN doc THEN LeafPasses(doc, profile)
    ELSE LET conditions == doc.conditions.items
         IN IF conditions = <<>> THEN TRUE
            ELSE IF "conditions" \notin DOMAIN conditions[1]
            THEN \E i \in DOMAIN conditions : DocPasses(conditions[i], profile)
            ELSE IF doc.operator = "AND"
            THEN \A i \in DOMAIN conditions : DocPasses(conditions[i], profile)
            ELSE \E i \in DOMAIN conditions : DocPasses(conditions[i], profile)

\* the store is as the load that has just returned leaves an empty store
IsLoadIntoEmptyStore ==
    /\ IsStoreCall(ret) /\ ~ret.raised /\ ret.ai_output # <<>>
    /\ \E order \in Orders(NewKeys(EmptyDB, ret.ai_output)) :
          db = process_all_courses(EmptyDB, ret.ai_output, order, 0).db

\* C28: for a batch of documents loaded by one call into an empty store, the
\* eligibility the evaluator computes from the stored rows is, for each course
\* of the batch and each profile, what its rules give on the course's document
C28_StoredMatchesDocument ==
    IsLoadIntoEmptyStore =>
        \A n \in DOMAIN ret.ai_output :
            ret.ai_output[n][2] # None =>
                \A profile \in EvalProfiles :
                    _can_take_course(db, ret.ai_output[n][1],
                                     profile[1], profile[2], profile[3])
                        = {DocPasses(ret.ai_output[n][2], profile)}


-----------------------------------------------------------------------------
(* Extraction runs one after another on the same course_lib *)

\* number of extraction runs
MaxRuns == 2

\* RequirementsProcessor.process_all_courses on a course_lib that has the files
\* of earlier runs: os.makedirs(..., exist_ok=True) keeps them, and the run
\* opens the files it writes with 'w'
extract_all_courses_into(course_lib, courses, replies, batch_size) ==
    ProcessBatches([raised |-> FALSE, cause |-> "none", files |-> course_lib,
                    successful_count |-> 0, invalid_count |-> 0, failed_count |-> 0],
                   0, SelectCourses(courses), replies, batch_size)

\* the courses table of the runs, and what the model call may give in them: an
\* exception, a JSON object, JSON null, and a text that is no JSON
RunRows == {ParserRow(<<"E","C","E">>, <<"1","0","5">>, Prereq), ECE106}
RunReplies ==
    { Timeout,
      Body([response |-> Str(<<"{","}">>)]),
      Body([response |-> Str(<<" ","n","u","l","l","\n">>)]),
      Body([response |-> Str(<<"S","u","r","e">>)]) }

InitRuns ==
    /\ db = [course_lib |-> {}, runs |-> 0]
    /\ ret = [op |-> "idle"]

ExtractInto(courses, replies, batch_size) ==
    /\ ret.op = "idle"
    /\ db.runs < MaxRuns
    /\ LET result == extract_all_courses_into(db.course_lib, courses, replies, batch_size)
       IN /\ db' = [course_lib |-> result.files, runs |-> db.runs + 1]
          /\ ret' = [courses |-> courses,
                     op |-> "RequirementsProcessor.process_all_courses",
                     result |-> result,
                     replies |-> replies,
                     batch_size |-> batch_size]

ExtractionRunInto ==
    \E batch_size \in {1, 20} :
        \E replies \in [1..Len(SelectCourses(RunRows)) -> RunReplies] :
            ExtractInto(RunRows, replies, batch_size)

NextRuns == ExtractionRunInto \/ Return
SpecRuns == InitRuns /\ [][NextRuns]_vars

\* C29: after a sequence of extraction runs, a course has a file in at most one
\* of course_lib/<subject>/ and course_lib/invalid/, and the file has the
\* outcome of the last run: the parsed document in the subject directory, or
\* the raw response in invalid
C29_OneFilePerCourse ==
    IsExtraction(ret) =>
        LET all_courses == SelectCourses(ret.courses)
        IN \A k \in DOMAIN all_courses :
              LET row == all_courses[k]
                  result == process_single_course(ret.replies[k])
                  answered == result # None /\ Truthy(result)
              IN /\ ~(HasFile(db.course_lib, row.subject, row.code)
                       /\ HasFile(db.course_lib, invalid, row.code))
                 /\ (answered /\ ~json_loads(result).raised) =>
                        \E f \in db.course_lib :
                            /\ f.dir = row.subject /\ f.name = FileName(row.code)
                            /\ f.doc.parsed_requirements = json_loads(result).value
                 /\ (answered /\ json_loads(result).raised) =>
                        \E f \in db.course_lib :
                            /\ f.dir = invalid /\ f.name = FileName(row.code)
                            /\ f.doc.raw_response = result

====
